---- MODULE Spec2Model ----
(***************************************************************************)
(* Data-ingestion and reconciliation pipeline of economy-analyzer:         *)
(* the OECD (monthly) and World Bank (annual) inflation syncs, the World   *)
(* Bank income sync, the wipes, and the storage gateway they write through.*)
(*                                                                         *)
(* Strings the code computes with (periods) are sequences of characters:   *)
(* a digit d is the number d and '-' is Dash, which sorts before every     *)
(* digit as it does in ASCII.  Numbers that are not finite and absent      *)
(* fields are distinguished values outside the range of the finite ones.   *)
(***************************************************************************)
EXTENDS Integers, Sequences, FiniteSets, TLC

\* ------------------------------------------------------------------ bounds
\* longest window a source returns in the main specification
MaxWindow == 2
\* longest list one income indicator download returns
MaxIncome == 1
Extra == 1
\* the calendar year of "now" (new Date().toISOString().slice(0, 4))
NowYear == 2022

\* ------------------------------------------------------- program constants
BATCH_SIZE == 5
WINDOW_MONTHS == 75
MAX_RETRIES == 3
\* the literals "1914-01" and "1900"
OECD_EPOCH == <<1, 9, 1, 4, -1, 0, 1>>
WB_EPOCH == <<1, 9, 0, 0>>

\* ------------------------------------------------------------ value domain
Dash == -1
NaN == 1000
Infinity == 1001
Undefined == 1002

IsFinite(v) == v \notin {NaN, Infinity, Undefined}

\* ------------------------------------------------------------------ strings
IsDigit(c) == c \in 0..9

RECURSIVE NumToString(_)
\* Number.prototype.toString for a non-negative integer
NumToString(n) == IF n < 10 THEN <<n>> ELSE Append(NumToString(n \div 10), n % 10)

\* String.prototype.padStart(2, '0') of a month number
PadStart2(s) == IF Len(s) < 2 THEN <<0>> \o s ELSE s

RECURSIVE DigitPrefixLen(_)
\* how many leading characters of s are digits
DigitPrefixLen(s) ==
    IF s = <<>> \/ ~IsDigit(Head(s)) THEN 0 ELSE 1 + DigitPrefixLen(Tail(s))

RECURSIVE DigitsValue(_)
DigitsValue(s) ==
    IF s = <<>> THEN 0 ELSE 10 * DigitsValue(SubSeq(s, 1, Len(s) - 1)) + s[Len(s)]

\* parseInt(s, 10): the value of the leading digits, NaN when there are none
ParseInt(s) ==
    IF DigitPrefixLen(s) = 0 THEN NaN ELSE DigitsValue(SubSeq(s, 1, DigitPrefixLen(s)))

\* String.prototype.substring(0, n)
Substring(s, n) == SubSeq(s, 1, IF Len(s) < n THEN Len(s) ELSE n)

\* String.prototype.includes('-')
IncludesDash(s) == \E i \in 1..Len(s) : s[i] = Dash

\* index of the first '-' of s, Len(s) + 1 when there is none
FirstDash(s) ==
    IF IncludesDash(s) THEN CHOOSE i \in 1..Len(s) : s[i] = Dash /\ \A j \in 1..(i - 1) : s[j] # Dash
    ELSE Len(s) + 1

\* date.split('-')[0] and date.split('-')[1]
SplitYear(s) == SubSeq(s, 1, FirstDash(s) - 1)
SplitMonth(s) ==
    LET rest == SubSeq(s, FirstDash(s) + 1, Len(s))
    IN  SubSeq(rest, 1, FirstDash(rest) - 1)

RECURSIVE StrLess(_, _)
\* a < b on strings: lexicographic on the character codes, a proper prefix first
StrLess(a, b) ==
    IF b = <<>> THEN FALSE
    ELSE IF a = <<>> THEN TRUE
    ELSE IF Head(a) # Head(b) THEN Head(a) < Head(b)
    ELSE StrLess(Tail(a), Tail(b))

StrLessEq(a, b) == a = b \/ StrLess(a, b)

\* the regular expression ^\d{4}$
IsYearShape(s) == Len(s) = 4 /\ \A i \in 1..4 : IsDigit(s[i])

\* LENGTH(ts) = 7 AND ts ~ '^[0-9]{4}-[0-9]{2}$'
IsMonthShape(s) ==
    /\ Len(s) = 7
    /\ \A i \in {1, 2, 3, 4, 6, 7} : IsDigit(s[i])
    /\ s[5] = Dash

\* LIKE '<year>-%'
LikeYearDash(s, year) ==
    /\ Len(s) >= Len(year) + 1
    /\ SubSeq(s, 1, Len(year)) = year
    /\ s[Len(year) + 1] = Dash

\* the period strings "YYYY" and "YYYY-MM"
Year(y) == NumToString(y)
Month(y, m) == NumToString(y) \o <<Dash>> \o PadStart2(NumToString(m))

\* ------------------------------------------------------ resume arithmetic
incrementDate(date, increment) ==
    IF IncludesDash(date)
    THEN LET yearNum == ParseInt(SplitYear(date))
             monthNum == ParseInt(SplitMonth(date))
             totalMonths == yearNum * 12 + monthNum + increment
             newYear == (totalMonths - 1) \div 12
             newMonth == ((totalMonths - 1) % 12) + 1
         IN  NumToString(newYear) \o <<Dash>> \o PadStart2(NumToString(newMonth))
    ELSE NumToString(ParseInt(date) + increment)

\* ------------------------------------------------------------ storage reads
\* the greatest string of a non-empty set of strings (ORDER BY ... DESC LIMIT 1)
MaxStr(S) == CHOOSE s \in S : \A t \in S : StrLessEq(t, s)

Null == <<>>

\* the newest timestamp of any shape, as the query would be without its WHERE
MutGetNewestDateForOecdInflationData(infl) ==
    LET S == {r.timestamp : r \in infl}
    IN  IF S = {} THEN Null ELSE MaxStr(S)

\* getNewestDateForOecdInflationData: newest "YYYY-MM" timestamp, or null
getNewestDateForOecdInflationData(infl) ==
    LET S == {r.timestamp : r \in {x \in infl : IsMonthShape(x.timestamp)}}
    IN  IF S = {} THEN Null ELSE MaxStr(S)

\* getNewestDateForWorldBankInflationData: newest "YYYY" timestamp, or null
getNewestDateForWorldBankInflationData(infl) ==
    LET S == {r.timestamp : r \in {x \in infl : IsYearShape(x.timestamp)}}
    IN  IF S = {} THEN Null ELSE MaxStr(S)

\* getNewestDateForIncomeData: newest "YYYY" timestamp of the income table, or null
getNewestDateForIncomeData(inc) ==
    LET S == {r.timestamp : r \in {x \in inc : IsYearShape(x.timestamp)}}
    IN  IF S = {} THEN Null ELSE MaxStr(S)

MutHasOecdDataForCountryYear(infl, countryCode, year) ==
    \E r \in infl : r.countryCode = countryCode /\ r.timestamp = year

\* hasOecdDataForCountryYear
hasOecdDataForCountryYear(infl, countryCode, year) ==
    \E r \in infl :
        /\ r.countryCode = countryCode
        /\ IsMonthShape(r.timestamp)
        /\ LikeYearDash(r.timestamp, year)

\* hasAnyOecdDataForCountry
hasAnyOecdDataForCountry(infl, countryCode) ==
    \E r \in infl : r.countryCode = countryCode /\ IsMonthShape(r.timestamp)

\* ----------------------------------------------------------- storage writes
\* addCountry as it would be if it wrote no row
MutAddCountryRows(ctry, countryCode, countryName) == ctry

\* INSERT INTO countries ... ON CONFLICT (code) DO NOTHING, flag always true
addCountryRows(ctry, countryCode, countryName) ==
    IF \E c \in ctry : c.code = countryCode THEN ctry
    ELSE ctry \cup {[code |-> countryCode, name |-> countryName,
                     hasMonthlyInflationData |-> TRUE]}

MutGreatest(old, new) == new

\* GREATEST(old::int, new)::boolean
Greatest(old, new) == old \/ new

\* INSERT INTO countries ... ON CONFLICT (code) DO UPDATE SET name, flag = GREATEST
upsertCountryRows(ctry, countryCode, countryName, finalHasMonthly) ==
    IF \E c \in ctry : c.code = countryCode
    THEN {IF c.code = countryCode
          THEN [code |-> countryCode, name |-> countryName,
                hasMonthlyInflationData |->
                    Greatest(c.hasMonthlyInflationData, finalHasMonthly)]
          ELSE c : c \in ctry}
    ELSE ctry \cup {[code |-> countryCode, name |-> countryName,
                     hasMonthlyInflationData |-> finalHasMonthly]}

\* the insert as it would be with ON CONFLICT DO UPDATE
MutInsertInflationRows(infl, data) ==
    {r \in infl : ~(r.countryCode = data.countryCode /\ r.timestamp = data.timestamp)}
        \cup {[countryCode |-> data.countryCode, timestamp |-> data.timestamp,
                inflationValue |-> data.inflationRate]}

\* INSERT INTO inflation ... ON CONFLICT DO NOTHING (unique on countryCode, timestamp)
insertInflationRows(infl, data) ==
    IF \E r \in infl : r.countryCode = data.countryCode /\ r.timestamp = data.timestamp
    THEN infl
    ELSE infl \cup {[countryCode |-> data.countryCode, timestamp |-> data.timestamp,
                     inflationValue |-> data.inflationRate]}

\* DELETE FROM inflation WHERE countryCode = ... AND timestamp = year
deleteWorldBankRows(infl, countryCode, year) ==
    {r \in infl : ~(r.countryCode = countryCode /\ r.timestamp = year)}

\* data.x ?? 0
OrZero(v) == IF v = Undefined THEN 0 ELSE v

\* the insert branch of addIncomeData
insertIncomeRows(inc, data) ==
    inc \cup {[countryCode |-> data.countryCode, timestamp |-> data.timestamp,
               ppp_international_dollars |-> OrZero(data.ppp_international_dollars),
               current_local_currency |-> OrZero(data.current_local_currency),
               annual_growth_rate |-> OrZero(data.annual_growth_rate)]}

\* a column of the update: the new value when the field is provided
Provided(new, old) == IF new # Undefined THEN new ELSE old

\* the update branch of addIncomeData: only the provided fields are set
updateIncomeRows(inc, data) ==
    {IF r.countryCode = data.countryCode /\ r.timestamp = data.timestamp
     THEN [r EXCEPT
              !.ppp_international_dollars = Provided(data.ppp_international_dollars, @),
              !.current_local_currency = Provided(data.current_local_currency, @),
              !.annual_growth_rate = Provided(data.annual_growth_rate, @)]
     ELSE r : r \in inc}

\* the foreign keys of inflation and income on countries(code)
Referenced(infl, inc) == {r.countryCode : r \in infl} \cup {r.countryCode : r \in inc}

\* ---------------------------------------------------------------- the state
VARIABLES
    countryTable,    \* rows of "countries": code (primary key), name, flag
    inflationTable,  \* rows of "inflation": countryCode, timestamp, inflationValue
    incomeTable,     \* rows of "income": countryCode, timestamp and three values
    run              \* the server action in progress and its local variables

tables == <<countryTable, inflationTable, incomeTable>>
vars == <<countryTable, inflationTable, incomeTable, run>>

Idle == [pc |-> "idle", kind |-> "none"]

\* a run whose error propagated to the caller
Failed(kind) == [pc |-> "failed", kind |-> kind]

\* attemptDBCall: the call is tried until it succeeds, MAX_RETRIES + 1 times at most.
\* thrown is the number of attempts that threw.
AttemptsThrown == 0..(MAX_RETRIES + 1)
attemptDBCallThrows(thrown) == thrown > MAX_RETRIES

SeqsUpTo(S, n) == UNION {[1..k -> S] : k \in 0..n}

\* validData.slice(i, i + BATCH_SIZE).length
BatchLen(r) ==
    IF Len(r.validData) - r.i < BATCH_SIZE THEN Len(r.validData) - r.i ELSE BATCH_SIZE

\* the record whose callback is running: batch[k]
Cur(r) == r.validData[r.i + r.k]

CountOf(results, status) == Cardinality({n \in 1..Len(results) : results[n] = status})

\* Array.prototype.filter
Filter(s, Keep(_)) == SelectSeq(s, Keep)

\* --------------------------------------------------- OECD (monthly) sync
\* the validator of updateInflationDataFromOecd
OecdValid(data) ==
    /\ data.countryCode # "" /\ data.timestamp # <<>>
    /\ IsFinite(data.inflationRate)

\* what the OECD endpoint returns for startPeriod..endPeriod
OecdInWindow(data, startDate, endDate) ==
    StrLessEq(startDate, data.timestamp) /\ StrLessEq(data.timestamp, endDate)

\* the end of a window as it would be if the loop did not advance its start period
MutOecdNextWindow(r) == [r EXCEPT !.pc = "loop", !.validData = <<>>]

\* end of one window of the for loop: startDate = incrementedDate
OecdNextWindow(r) ==
    [r EXCEPT !.pc = "loop", !.startDate = r.incrementedDate, !.validData = <<>>]

\* the end of a window as it would be if the cleanup were started and not awaited
MutOecdAfterBatches(r) ==
    OecdNextWindow([r EXCEPT !.pendingDeletes = r.addedCountryYears])

\* after the batches of a window: the cleanup of superseded World Bank rows
OecdAfterBatches(r) ==
    IF r.addedCountryYears # {}
    THEN [r EXCEPT !.pc = "delete", !.pendingDeletes = r.addedCountryYears,
                   !.deleteErrors = 0]
    ELSE OecdNextWindow(r)

\* results.forEach of a settled batch, and the step of the batch loop
OecdSettleBatch(r) ==
    LET r1 == [r EXCEPT !.totalErrors = @ + CountOf(r.results, "rejected"),
                        !.totalRecordsAdded = @ + CountOf(r.results, "fulfilled"),
                        !.i = @ + BATCH_SIZE, !.k = 1, !.results = <<>>]
    IN  IF r1.i < Len(r1.validData) THEN [r1 EXCEPT !.pc = "addCountry"]
        ELSE OecdAfterBatches(r1)

\* the batch as it would be under Promise.all: the first rejection ends the wait
MutRecordSettled(r, status, first) ==
    LET r1 == [r EXCEPT !.results = Append(@, status)]
    IN  IF r.k < BatchLen(r) /\ status # "rejected" THEN [r1 EXCEPT !.k = @ + 1, !.pc = first]
        ELSE [r1 EXCEPT !.pc = "settle"]

\* one callback of batch.map has settled with the given status; the callbacks of a
\* batch are taken in index order, and Promise.allSettled resolves after the last
RecordSettled(r, status, first) ==
    LET r1 == [r EXCEPT !.results = Append(@, status)]
    IN  IF r.k < BatchLen(r) THEN [r1 EXCEPT !.k = @ + 1, !.pc = first]
        ELSE [r1 EXCEPT !.pc = "settle"]

OecdRecordSettled(r, status) == RecordSettled(r, status, "addCountry")

\* the local variables of updateInflationDataFromOecd before its loop
NewOecdRun(startDate) ==
    [pc |-> "loop", kind |-> "oecd", startDate |-> startDate, incrementedDate |-> <<>>,
     newData |-> <<>>, validData |-> <<>>, i |-> 0, k |-> 1, results |-> <<>>,
     totalRecordsRead |-> 0, totalRecordsAdded |-> 0, totalErrors |-> 0,
     totalWorldBankDeleted |-> 0, addedCountryYears |-> {}, pendingDeletes |-> {},
     deleteErrors |-> 0]

\* updateInflationDataFromOecd, up to the loop: the resume point
OecdStart(r, rn) ==
    /\ r.pc = "idle"
    /\ \E thrown \in AttemptsThrown :
         IF attemptDBCallThrows(thrown) THEN rn = Failed("oecd")
         ELSE LET newest == getNewestDateForOecdInflationData(inflationTable)
              IN  rn = NewOecdRun(
                         incrementDate(IF newest = Null THEN OECD_EPOCH ELSE newest, 1))
    /\ UNCHANGED tables

\* the body of the for loop from the fetched newData to the first batch
OecdFetched(r, incrementedDate, newData) ==
    LET validData == Filter(newData, OecdValid)
        invalidCount == Len(newData) - Len(validData)
        r1 == [r EXCEPT !.incrementedDate = incrementedDate,
                        !.newData = newData, !.validData = validData,
                        !.totalRecordsRead = @ + Len(newData),
                        !.totalErrors = @ + invalidCount,
                        !.i = 0, !.k = 1, !.results = <<>>,
                        !.addedCountryYears = {}]
    IN  IF validData # <<>> THEN [r1 EXCEPT !.pc = "addCountry"]
        ELSE OecdAfterBatches(r1)

\* one iteration of the for loop up to the first batch: fetch and validate
OecdFetch(r, rn, Records, maxLen) ==
    /\ r.pc = "loop" /\ r.kind = "oecd"
    /\ StrLessEq(r.startDate, NumToString(NowYear))
    /\ LET incrementedDate == incrementDate(r.startDate, WINDOW_MONTHS)
           Avail == {d \in Records : OecdInWindow(d, r.startDate, incrementedDate)}
       IN  \/ rn = Failed("oecd")
           \/ \E newData \in SeqsUpTo(Avail, maxLen) :
                rn = OecdFetched(r, incrementedDate, newData)
    /\ UNCHANGED tables

\* Promise.allSettled of a batch has resolved
OecdSettle(r, rn) ==
    /\ r.pc = "settle" /\ r.kind = "oecd"
    /\ rn = OecdSettleBatch(r)
    /\ UNCHANGED tables

\* the loop condition fails: the final summary
OecdFinish(r, rn) ==
    /\ r.pc = "loop" /\ r.kind = "oecd"
    /\ ~StrLessEq(r.startDate, NumToString(NowYear))
    /\ rn = [r EXCEPT !.pc = "done"]
    /\ UNCHANGED tables

\* addInflationData, first storage call: addCountry
OecdAddCountry(r, rn) ==
    /\ r.pc = "addCountry" /\ r.kind = "oecd"
    /\ \E thrown \in AttemptsThrown :
         IF attemptDBCallThrows(thrown)
         THEN rn = OecdRecordSettled(r, "rejected") /\ UNCHANGED countryTable
         ELSE /\ countryTable' =
                    addCountryRows(countryTable, Cur(r).countryCode, Cur(r).countryName)
              /\ rn = [r EXCEPT !.pc = "insert"]
    /\ UNCHANGED <<inflationTable, incomeTable>>

\* addInflationData, second storage call, and the rest of the callback
OecdInsert(r, rn) ==
    /\ r.pc = "insert" /\ r.kind = "oecd"
    /\ \E thrown \in AttemptsThrown :
         IF attemptDBCallThrows(thrown)
         THEN rn = OecdRecordSettled(r, "rejected") /\ UNCHANGED inflationTable
         ELSE /\ inflationTable' = insertInflationRows(inflationTable, Cur(r))
              /\ rn = OecdRecordSettled(
                         [r EXCEPT !.addedCountryYears =
                             @ \cup {<<Cur(r).countryCode, Substring(Cur(r).timestamp, 4)>>}],
                         "fulfilled")
    /\ UNCHANGED <<countryTable, incomeTable>>

\* one deleteWorldBankDataForCountryYear of the cleanup fan-out
OecdDelete(r, rn) ==
    /\ r.pc = "delete" /\ r.kind = "oecd"
    /\ \E cy \in r.pendingDeletes : \E thrown \in AttemptsThrown :
         LET left == r.pendingDeletes \ {cy}
             after == deleteWorldBankRows(inflationTable, cy[1], cy[2])
             deletedCount == Cardinality(inflationTable) - Cardinality(after)
             r1 == IF attemptDBCallThrows(thrown)
                   THEN [r EXCEPT !.pendingDeletes = left, !.deleteErrors = @ + 1]
                   ELSE [r EXCEPT !.pendingDeletes = left,
                                  !.totalWorldBankDeleted = @ + deletedCount]
         IN  /\ inflationTable' =
                   IF attemptDBCallThrows(thrown) THEN inflationTable ELSE after
             /\ rn = IF left # {} THEN r1
                      ELSE OecdNextWindow([r1 EXCEPT !.totalErrors = @ + r1.deleteErrors])
    /\ UNCHANGED <<countryTable, incomeTable>>

\* ------------------------------------ addCountryWithMonthlyFlag(.., false)
\* results.forEach as it would be if a skipped record were counted nowhere
MutWbSettleBatch(r) ==
    LET r1 == [r EXCEPT !.totalErrors = @ + CountOf(r.results, "rejected"),
                        !.totalRecordsAdded = @ + CountOf(r.results, "added"),
                        !.i = @ + BATCH_SIZE, !.k = 1, !.results = <<>>]
    IN  IF r1.i < Len(r1.validData)
        THEN [r1 EXCEPT !.pc = IF r.kind = "wbInfl" THEN "check" ELSE "hasAny"]
        ELSE [r1 EXCEPT !.pc = "done"]

\* results.forEach of a settled World Bank or income batch
WbSettleBatch(r) ==
    LET r1 == [r EXCEPT !.totalErrors = @ + CountOf(r.results, "rejected"),
                        !.totalDuplicates = @ + CountOf(r.results, "skipped"),
                        !.totalRecordsAdded = @ + CountOf(r.results, "added"),
                        !.i = @ + BATCH_SIZE, !.k = 1, !.results = <<>>]
    IN  IF r1.i < Len(r1.validData)
        THEN [r1 EXCEPT !.pc = IF r.kind = "wbInfl" THEN "check" ELSE "hasAny"]
        ELSE [r1 EXCEPT !.pc = "done"]

WbRecordSettled(r, status) ==
    RecordSettled(r, status, IF r.kind = "wbInfl" THEN "check" ELSE "hasAny")

\* Promise.allSettled of a World Bank or income batch has resolved
WbSettle(r, rn) ==
    /\ r.pc = "settle" /\ r.kind \in {"wbInfl", "income"}
    /\ rn = WbSettleBatch(r)
    /\ UNCHANGED tables

\* addCountryWithMonthlyFlag with the flag argument false: hasAnyOecdDataForCountry
CountryHasAny(r, rn) ==
    /\ r.pc = "hasAny"
    /\ \E thrown \in AttemptsThrown :
         IF attemptDBCallThrows(thrown) THEN rn = WbRecordSettled(r, "rejected")
         ELSE rn = [r EXCEPT !.pc = "country",
                             !.finalHasMonthly =
                                 hasAnyOecdDataForCountry(inflationTable, Cur(r).countryCode)]
    /\ UNCHANGED tables

\* addCountryWithMonthlyFlag: the upsert of the country row
CountryUpsert(r, rn) ==
    /\ r.pc = "country"
    /\ \E thrown \in AttemptsThrown :
         IF attemptDBCallThrows(thrown)
         THEN rn = WbRecordSettled(r, "rejected") /\ UNCHANGED countryTable
         ELSE /\ countryTable' = upsertCountryRows(countryTable, Cur(r).countryCode,
                                                   Cur(r).countryName, r.finalHasMonthly)
              /\ rn = [r EXCEPT !.pc = IF r.kind = "wbInfl" THEN "insert" ELSE "select"]
    /\ UNCHANGED <<inflationTable, incomeTable>>

\* ------------------------------------------ World Bank (annual) inflation sync
\* the validator of updateWorldBankInflationData
WbValid(data) ==
    /\ data.countryCode # "" /\ data.timestamp # <<>>
    /\ IsYearShape(data.timestamp)
    /\ IsFinite(data.inflationRate)

\* the resume point of the annual syncs: newest year + 1
AnnualStart(newest) ==
    LET startDate == IF newest = Null THEN WB_EPOCH ELSE newest
        startYear == ParseInt(Substring(startDate, 4))
    IN  IF startYear # NaN THEN NumToString(startYear + 1) ELSE startDate

\* the download as it would be without the filter on startDate
MutFromStartYear(allData, startDate) == allData

\* the filter of getInflationDataFromWorldBank: rows earlier than startDate are dropped
FromStartYear(allData, startDate) ==
    LET startYear == ParseInt(Substring(startDate, 4))
        Keep(data) == LET dataYear == ParseInt(Substring(data.timestamp, 4))
                      IN  dataYear # NaN /\ dataYear >= startYear
    IN  IF startYear = NaN THEN allData ELSE Filter(allData, Keep)

NewAnnualRun(kind, startDate) ==
    [pc |-> "fetch", kind |-> kind, startDate |-> startDate,
     validData |-> <<>>, i |-> 0, k |-> 1, results |-> <<>>,
     totalRecordsRead |-> 0, totalRecordsAdded |-> 0, totalErrors |-> 0,
     totalDuplicates |-> 0, finalHasMonthly |-> FALSE, existing |-> FALSE]

\* updateWorldBankInflationData: the resume point
WbStart(r, rn) ==
    /\ r.pc = "idle"
    /\ \E thrown \in AttemptsThrown :
         IF attemptDBCallThrows(thrown) THEN rn = Failed("wbInfl")
         ELSE rn = NewAnnualRun("wbInfl",
                     AnnualStart(getNewestDateForWorldBankInflationData(inflationTable)))
    /\ UNCHANGED tables

\* updateWorldBankInflationData from the fetched newData to the first batch
WbFetched(r, newData) ==
    LET validData == Filter(newData, WbValid)
        r1 == [r EXCEPT !.validData = validData,
                        !.totalRecordsRead = Len(newData),
                        !.totalErrors = @ + (Len(newData) - Len(validData))]
    IN  IF validData # <<>> THEN [r1 EXCEPT !.pc = "check"]
        ELSE [r1 EXCEPT !.pc = "done"]

\* the single download, the validator and the counters before the first batch
WbFetch(r, rn, Records, maxLen) ==
    /\ r.pc = "fetch" /\ r.kind = "wbInfl"
    /\ \/ rn = Failed("wbInfl")
       \/ \E allData \in SeqsUpTo(Records, maxLen) :
            rn = WbFetched(r, FromStartYear(allData, r.startDate))
    /\ UNCHANGED tables

\* the callback of batch.map: hasOecdDataForCountryYear and the skip
WbCheck(r, rn) ==
    /\ r.pc = "check" /\ r.kind = "wbInfl"
    /\ \E thrown \in AttemptsThrown :
         IF attemptDBCallThrows(thrown) THEN rn = WbRecordSettled(r, "rejected")
         ELSE IF hasOecdDataForCountryYear(inflationTable, Cur(r).countryCode,
                                           Substring(Cur(r).timestamp, 4))
              THEN rn = WbRecordSettled(r, "skipped")
              ELSE rn = [r EXCEPT !.pc = "hasAny"]
    /\ UNCHANGED tables

\* addInflationDataWithMonthlyFlag: the insert after the country upsert
WbInsert(r, rn) ==
    /\ r.pc = "insert" /\ r.kind = "wbInfl"
    /\ \E thrown \in AttemptsThrown :
         IF attemptDBCallThrows(thrown)
         THEN rn = WbRecordSettled(r, "rejected") /\ UNCHANGED inflationTable
         ELSE /\ inflationTable' = insertInflationRows(inflationTable, Cur(r))
              /\ rn = WbRecordSettled(r, "added")
    /\ UNCHANGED <<countryTable, incomeTable>>

\* ------------------------------------------------- World Bank income sync
\* mergedData.set(key, {countryCode, countryName, timestamp}) when the key is new,
\* then data.<field> = item.incomeValue
RECURSIVE MergeInto(_, _, _)
MergeInto(merged, items, field) ==
    IF items = <<>> THEN merged
    ELSE LET item == Head(items)
             Same(d) == d.countryCode = item.countryCode /\ d.timestamp = item.timestamp
             fresh == [countryCode |-> item.countryCode, countryName |-> item.countryName,
                       timestamp |-> item.timestamp,
                       ppp_international_dollars |-> Undefined,
                       current_local_currency |-> Undefined,
                       annual_growth_rate |-> Undefined]
             base == IF \E n \in 1..Len(merged) : Same(merged[n]) THEN merged
                     ELSE Append(merged, fresh)
             set == [n \in 1..Len(base) |->
                        IF Same(base[n]) THEN [base[n] EXCEPT ![field] = item.incomeValue]
                        ELSE base[n]]
         IN  MergeInto(set, Tail(items), field)

\* Array.from(mergedData.values()) of the three indicator downloads
MergeIncome(pppData, localCurrencyData, growthRateData) ==
    MergeInto(MergeInto(MergeInto(<<>>, pppData, "ppp_international_dollars"),
                        localCurrencyData, "current_local_currency"),
              growthRateData, "annual_growth_rate")

\* the validator of updateWorldBankIncomeData
IncomeValid(data) ==
    /\ data.countryCode # "" /\ data.timestamp # <<>>
    /\ IsYearShape(data.timestamp)
    /\ \/ data.ppp_international_dollars # Undefined /\ IsFinite(data.ppp_international_dollars)
       \/ data.current_local_currency # Undefined /\ IsFinite(data.current_local_currency)
       \/ data.annual_growth_rate # Undefined /\ IsFinite(data.annual_growth_rate)

\* updateWorldBankIncomeData: the resume point
IncomeStart(r, rn) ==
    /\ r.pc = "idle"
    /\ \E thrown \in AttemptsThrown :
         IF attemptDBCallThrows(thrown) THEN rn = Failed("income")
         ELSE rn = NewAnnualRun("income",
                                AnnualStart(getNewestDateForIncomeData(incomeTable)))
    /\ UNCHANGED tables

\* updateWorldBankIncomeData from the three fetched lists to the first batch
IncomeFetched(r, pppData, localCurrencyData, growthRateData) ==
    LET mergedArray == MergeIncome(pppData, localCurrencyData, growthRateData)
        validData == Filter(mergedArray, IncomeValid)
        r1 == [r EXCEPT !.validData = validData,
                        !.totalRecordsRead =
                            Len(pppData) + Len(localCurrencyData) + Len(growthRateData),
                        !.totalErrors = @ + (Len(mergedArray) - Len(validData))]
    IN  IF validData # <<>> THEN [r1 EXCEPT !.pc = "hasAny"]
        ELSE [r1 EXCEPT !.pc = "done"]

\* the three downloads, the merge, the validator and the counters
IncomeFetch(r, rn, Items, maxLen) ==
    /\ r.pc = "fetch" /\ r.kind = "income"
    /\ \/ rn = Failed("income")
       \/ \E all1 \in SeqsUpTo(Items, maxLen), all2 \in SeqsUpTo(Items, maxLen),
             all3 \in SeqsUpTo(Items, maxLen) :
            rn = IncomeFetched(r, FromStartYear(all1, r.startDate),
                               FromStartYear(all2, r.startDate),
                               FromStartYear(all3, r.startDate))
    /\ UNCHANGED tables

\* addIncomeData after the country upsert: the guard, then the existence check
IncomeSelect(r, rn) ==
    /\ r.pc = "select" /\ r.kind = "income"
    /\ IF /\ Cur(r).ppp_international_dollars = Undefined
          /\ Cur(r).current_local_currency = Undefined
          /\ Cur(r).annual_growth_rate = Undefined
       THEN rn = WbRecordSettled(r, "added")
       ELSE \E thrown \in AttemptsThrown :
              IF attemptDBCallThrows(thrown) THEN rn = WbRecordSettled(r, "rejected")
              ELSE rn = [r EXCEPT !.pc = "write",
                                  !.existing =
                                      \E x \in incomeTable :
                                          /\ x.countryCode = Cur(r).countryCode
                                          /\ x.timestamp = Cur(r).timestamp]
    /\ UNCHANGED tables

\* addIncomeData: update of the provided fields, or insert
IncomeWrite(r, rn) ==
    /\ r.pc = "write" /\ r.kind = "income"
    /\ \E thrown \in AttemptsThrown :
         IF attemptDBCallThrows(thrown)
         THEN rn = WbRecordSettled(r, "rejected") /\ UNCHANGED incomeTable
         ELSE /\ incomeTable' = IF r.existing THEN updateIncomeRows(incomeTable, Cur(r))
                                 ELSE insertIncomeRows(incomeTable, Cur(r))
              /\ rn = WbRecordSettled(r, "added")
    /\ UNCHANGED <<countryTable, inflationTable>>

\* ------------------------------------------------------------------- wipes
\* deleteAllData, deleteAllInflationData or deleteAllIncomeData is called
WipeStart(r, rn) ==
    /\ r.pc = "idle"
    /\ \E kind \in {"deleteAllData", "deleteAllInflationData", "deleteAllIncomeData"} :
         rn = [pc |-> IF kind = "deleteAllIncomeData" THEN "delIncome" ELSE "delInflation",
               kind |-> kind, inflationDeleted |-> 0, incomeDeleted |-> 0,
               countriesDeleted |-> 0]
    /\ UNCHANGED tables

\* deleteAllInflationData as it would be if the delete returned no rows to count
MutDeleteAllInflation(r, rn) ==
    /\ r.pc = "delInflation"
    /\ \E thrown \in AttemptsThrown :
         IF attemptDBCallThrows(thrown) THEN rn = Failed(r.kind) /\ UNCHANGED inflationTable
         ELSE /\ inflationTable' = {}
              /\ rn = [r EXCEPT !.inflationDeleted = 0,
                                 !.pc = IF r.kind = "deleteAllData" THEN "delIncome"
                                        ELSE "done"]
    /\ UNCHANGED <<countryTable, incomeTable>>

\* deleteAllInflationData
DeleteAllInflation(r, rn) ==
    /\ r.pc = "delInflation"
    /\ \E thrown \in AttemptsThrown :
         IF attemptDBCallThrows(thrown) THEN rn = Failed(r.kind) /\ UNCHANGED inflationTable
         ELSE /\ inflationTable' = {}
              /\ rn = [r EXCEPT !.inflationDeleted = Cardinality(inflationTable),
                                 !.pc = IF r.kind = "deleteAllData" THEN "delIncome"
                                        ELSE "done"]
    /\ UNCHANGED <<countryTable, incomeTable>>

\* deleteAllIncomeData
DeleteAllIncome(r, rn) ==
    /\ r.pc = "delIncome"
    /\ \E thrown \in AttemptsThrown :
         IF attemptDBCallThrows(thrown) THEN rn = Failed(r.kind) /\ UNCHANGED incomeTable
         ELSE /\ incomeTable' = {}
              /\ rn = [r EXCEPT !.incomeDeleted = Cardinality(incomeTable),
                                 !.pc = IF r.kind = "deleteAllData" THEN "delCountries"
                                        ELSE "done"]
    /\ UNCHANGED <<countryTable, inflationTable>>

\* deleteAllCountryData: the delete fails while a row still references a country
DeleteAllCountry(r, rn) ==
    /\ r.pc = "delCountries"
    /\ \E thrown \in AttemptsThrown :
         IF attemptDBCallThrows(thrown) \/ Referenced(inflationTable, incomeTable) # {}
         THEN rn = Failed(r.kind) /\ UNCHANGED countryTable
         ELSE /\ countryTable' = {}
              /\ rn = [r EXCEPT !.countriesDeleted = Cardinality(countryTable),
                                 !.pc = "done"]
    /\ UNCHANGED <<inflationTable, incomeTable>>

\* the action returns to its caller
Return(r, rn) ==
    /\ r.pc \in {"done", "failed"}
    /\ rn = Idle
    /\ UNCHANGED tables

\* ------------------------------------------- the ingestion stage on its own
\* The part of each sync that follows the fetch, applied to a fetched window whatever
\* the resume point was, and applied to the same window a second time.  The run
\* carries the window, the tables as the first ingestion left them, and whether a
\* storage call of the first ingestion threw.
Fetched(kind, window) ==
    IF kind = "oecd"
    THEN OecdFetched(NewOecdRun(OECD_EPOCH), incrementDate(OECD_EPOCH, WINDOW_MONTHS),
                     window)
    ELSE IF kind = "wbInfl" THEN WbFetched(NewAnnualRun("wbInfl", WB_EPOCH), window)
    ELSE IncomeFetched(NewAnnualRun("income", WB_EPOCH), window[1], window[2], window[3])

\* the ingestion of the fetched window has finished
IngestionFinished(r) ==
    \/ r.kind = "oecd" /\ r.pc = "loop"
    \/ r.kind \in {"wbInfl", "income"} /\ r.pc = "done"

Ingest(r, rn, kind, Windows) ==
    /\ r.pc = "idle"
    /\ \E window \in Windows :
         rn = [phase |-> 1, window |-> window, snapshot |-> <<>>, clean |-> TRUE]
              @@ Fetched(kind, window)
    /\ UNCHANGED tables

Reingest(r, rn) ==
    /\ IngestionFinished(r) /\ r.phase = 1
    /\ rn = [phase |-> 2, window |-> r.window, snapshot |-> tables,
             clean |-> (r.totalErrors = Fetched(r.kind, r.window).totalErrors)]
            @@ Fetched(r.kind, r.window)
    /\ UNCHANGED tables

IngestReturn(r, rn) ==
    /\ IngestionFinished(r)
    /\ rn = Idle
    /\ UNCHANGED tables

\* ------------------------------------------------------------------ inputs
Codes == {"DEU"}

OecdRecords ==
    {[countryCode |-> c, countryName |-> "", timestamp |-> t, inflationRate |-> v] :
        c \in Codes, t \in {Month(2021, 6), Month(2021, 12)}, v \in {1, 2}}
    \cup {[countryCode |-> "DEU", countryName |-> "", timestamp |-> Month(2021, 6),
           inflationRate |-> NaN],
          [countryCode |-> "", countryName |-> "", timestamp |-> Month(2021, 6),
           inflationRate |-> 1]}

WbRecords ==
    {[countryCode |-> c, countryName |-> "Germany", timestamp |-> t, inflationRate |-> v] :
        c \in Codes, t \in {Year(2021), Year(2022)}, v \in {1, 2}}
    \cup {[countryCode |-> "DEU", countryName |-> "Germany", timestamp |-> Year(2021),
           inflationRate |-> Infinity],
          [countryCode |-> "DEU", countryName |-> "Germany", timestamp |-> Month(2021, 6),
           inflationRate |-> 1]}

IncomeItems ==
    {[countryCode |-> c, countryName |-> "Germany", timestamp |-> Year(2021),
      incomeValue |-> v] : c \in Codes, v \in {1, NaN}}

\* the windows of the ingestion stage on its own
OecdWindowRecords ==
    {[countryCode |-> c, countryName |-> "", timestamp |-> Month(2021, 6),
      inflationRate |-> v] : c \in Codes, v \in {1, 2, NaN}}
WbWindowRecords ==
    {[countryCode |-> c, countryName |-> "Germany", timestamp |-> Year(2021),
      inflationRate |-> v] : c \in Codes, v \in {1, 2, Infinity}}
OecdWindows == SeqsUpTo(OecdWindowRecords, MaxWindow)
WbWindows == SeqsUpTo(WbWindowRecords, MaxWindow)
IncomeWindowItems ==
    {[countryCode |-> c, countryName |-> "Germany", timestamp |-> Year(2021),
      incomeValue |-> v] : c \in Codes, v \in {1, 2}}
IncomeWindows ==
    SeqsUpTo(IncomeWindowItems, MaxIncome) \X SeqsUpTo(IncomeWindowItems, MaxIncome)
        \X SeqsUpTo(IncomeWindowItems, MaxIncome)

\* windows of more than one batch: a full batch and Extra more records, all valid
LongLen == BATCH_SIZE + Extra
LongOecdWindow ==
    [n \in 1..LongLen |->
        [countryCode |-> "DEU", countryName |-> "", timestamp |-> Month(NowYear - 1, n),
         inflationRate |-> 1]]
LongWbWindow ==
    [n \in 1..LongLen |->
        [countryCode |-> "DEU", countryName |-> "Germany",
         timestamp |-> Year(NowYear - n), inflationRate |-> 1]]
LongIncomeWindow ==
    <<[n \in 1..LongLen |->
        [countryCode |-> "DEU", countryName |-> "Germany",
         timestamp |-> Year(NowYear - n), incomeValue |-> 1]], <<>>, <<>>>>

\* ------------------------------------------------------------ attemptDBCall
\* what one invocation of the wrapped dbCall can do: resolve with a value or throw
DbValues == {"rowA", "rowB"}
DbErrors == {"timeout", "refused"}
DbDescriptions == {"addCountry", "addInflationData"}
Resolved(v) == [ok |-> TRUE, value |-> v]
Thrown(e) == [ok |-> FALSE, message |-> e]
DbOutcomes == {Resolved(v) : v \in DbValues} \cup {Thrown(e) : e \in DbErrors}

\* the test of the catch block that ends the retries
MutRetriesExhausted(retries) == retries >= MAX_RETRIES
RetriesExhausted(retries) == retries > MAX_RETRIES

\* the message of the Error thrown by attemptDBCall, as the parts it concatenates
MaxRetriesError(description, errorMessage) ==
    <<"Max retries reached for calling database: ", description,
      ". Last error: ", errorMessage>>

\* attemptDBCall is entered with a description; retries = 0
DbCallStart(r, rn) ==
    /\ r.pc = "idle"
    /\ \E description \in DbDescriptions :
         rn = [pc |-> "dbCall", kind |-> "attemptDBCall", description |-> description,
               retries |-> 0, outcomes |-> <<>>, result |-> Null, error |-> Null]
    /\ UNCHANGED tables

\* one turn of the while loop: await dbCall(), and the catch block up to the wait
DbCallAttempt(r, rn) ==
    /\ r.pc = "dbCall" /\ r.kind = "attemptDBCall"
    /\ r.retries <= MAX_RETRIES
    /\ \E outcome \in DbOutcomes :
         LET r1 == [r EXCEPT !.outcomes = Append(@, outcome)]
         IN  IF outcome.ok
             THEN rn = [r1 EXCEPT !.pc = "returned", !.result = outcome.value]
             ELSE LET r2 == [r1 EXCEPT !.retries = @ + 1]
                  IN  IF RetriesExhausted(r2.retries)
                      THEN rn = [r2 EXCEPT !.pc = "thrown",
                                   !.error = MaxRetriesError(r.description, outcome.message)]
                      ELSE rn = [r2 EXCEPT !.pc = "wait"]
    /\ UNCHANGED tables

\* await wait(RETRY_DELAY), then the loop test again
DbCallWait(r, rn) ==
    /\ r.pc = "wait" /\ r.kind = "attemptDBCall"
    /\ rn = [r EXCEPT !.pc = "dbCall"]
    /\ UNCHANGED tables

\* the caller has the value or the error
DbCallEnd(r, rn) ==
    /\ r.pc \in {"returned", "thrown"} /\ r.kind = "attemptDBCall"
    /\ rn = Idle
    /\ UNCHANGED tables

\* ------------------------------------- the retry loop of the source clients
\* RETRY_AFTER, MAX_RETRIES and RETRY_MULTIPLIER of api-calls.ts
RETRY_AFTER == 1000
API_MAX_RETRIES == 20
RETRY_MULTIPLIER == 2

RECURSIVE Pow(_, _)
Pow(b, k) == IF k = 0 THEN 1 ELSE b * Pow(b, k - 1)

\* response.ok
ResponseOk(response) == response.status >= 200 /\ response.status <= 299

\* what fetch(url) can resolve with: status and statusText (the reason phrase, which
\* is empty when the server sends none)
Responses ==
    {[status |-> 200, statusText |-> "OK"],
     [status |-> 429, statusText |-> "Too Many Requests"],
     [status |-> 429, statusText |-> ""],
     [status |-> 500, statusText |-> "Internal Server Error"]}

SourceClients == {"getOecdInflationData", "getInflationDataFromWorldBank"}

\* the test that makes the loop wait and fetch again
IsRateLimit(response) ==
    response.status = 429 /\ response.statusText = "Too Many Requests"

\* a source client is called; retryCount = 0
FetchCallStart(r, rn) ==
    /\ r.pc = "idle"
    /\ \E client \in SourceClients :
         rn = [pc |-> "request", kind |-> client, retryCount |-> 0, waitTime |-> 0,
               response |-> Null, received429 |-> 0, error |-> Null]
    /\ UNCHANGED tables

\* response = await fetch(url), and the body of the loop up to the wait
FetchResponse(r, rn) ==
    /\ r.pc = "request" /\ r.kind \in SourceClients
    /\ \E response \in Responses :
         LET r1 == [r EXCEPT !.response = response,
                             !.received429 = IF response.status = 429 THEN @ + 1 ELSE @]
         IN  IF ~ResponseOk(response)
             THEN IF IsRateLimit(response)
                  THEN LET waitTime == RETRY_AFTER * Pow(RETRY_MULTIPLIER, r.retryCount)
                       IN  IF r.retryCount >= API_MAX_RETRIES
                           THEN rn = [r1 EXCEPT !.pc = "thrown", !.waitTime = waitTime,
                                                !.error = <<"Too many retries">>]
                           ELSE rn = [r1 EXCEPT !.pc = "wait", !.waitTime = waitTime]
                  ELSE rn = [r1 EXCEPT !.pc = "thrown",
                               !.error = <<"Failed to fetch data: ", response.statusText>>]
             ELSE rn = [r1 EXCEPT !.pc = "received", !.retryCount = 0]
    /\ UNCHANGED tables

\* await wait(waitTime); retryCount++; continue
FetchWait(r, rn) ==
    /\ r.pc = "wait" /\ r.kind \in SourceClients
    /\ rn = [r EXCEPT !.pc = "request", !.retryCount = @ + 1]
    /\ UNCHANGED tables

\* the caller has the response or the error
FetchCallEnd(r, rn) ==
    /\ r.pc \in {"received", "thrown"} /\ r.kind \in SourceClients
    /\ rn = Idle
    /\ UNCHANGED tables

\* ------------------------------------------ interruption and a new run
\* The upstream data, the same for every run: what each source serves, in the order
\* it serves it.  All records are valid.
UpstreamOecd ==
    <<[countryCode |-> "DEU", countryName |-> "", timestamp |-> Month(NowYear - 1, 12),
       inflationRate |-> 1],
      [countryCode |-> "DEU", countryName |-> "", timestamp |-> Month(NowYear - 1, 6),
       inflationRate |-> 2]>>
UpstreamWb ==
    <<[countryCode |-> "DEU", countryName |-> "Germany", timestamp |-> Year(NowYear - 3),
       inflationRate |-> 1],
      [countryCode |-> "FRA", countryName |-> "France", timestamp |-> Year(NowYear - 3),
       inflationRate |-> 2]>>

\* getOecdInflationData(startDate, incrementedDate) against the upstream data
OecdFetchUpstream(r, rn) ==
    /\ r.pc = "loop" /\ r.kind = "oecd"
    /\ StrLessEq(r.startDate, NumToString(NowYear))
    /\ LET incrementedDate == incrementDate(r.startDate, WINDOW_MONTHS)
           InWindow(d) == OecdInWindow(d, r.startDate, incrementedDate)
       IN  rn = OecdFetched(r, incrementedDate, Filter(UpstreamOecd, InWindow))
    /\ UNCHANGED tables

\* getInflationDataFromWorldBank(startDate) against the upstream data
WbFetchUpstream(r, rn) ==
    /\ r.pc = "fetch" /\ r.kind = "wbInfl"
    /\ rn = WbFetched(r, FromStartYear(UpstreamWb, r.startDate))
    /\ UNCHANGED tables

\* no storage call of the run has thrown so far
NoneThrown(r) ==
    /\ r.totalErrors = 0
    /\ CountOf(r.results, "rejected") = 0
    /\ r.kind = "oecd" => r.deleteErrors = 0

\* the process is interrupted between two storage calls: the local variables of the
\* run are gone and storage stays as it is.  The idle state records which sync was
\* interrupted and whether any of its storage calls had thrown.
Interrupt(r, rn) ==
    /\ r.kind \in {"oecd", "wbInfl"}
    /\ r.pc \notin {"idle", "done", "failed"}
    /\ "interrupted" \notin DOMAIN r
    /\ rn = [interrupted |-> r.kind, clean |-> NoneThrown(r)] @@ Idle
    /\ UNCHANGED tables

\* the new run of the interrupted sync: its resume point is read from storage
Rerun(r, rn) ==
    /\ r.pc = "idle" /\ "interrupted" \in DOMAIN r
    /\ rn = [interrupted |-> r.interrupted, clean |-> r.clean] @@
            IF r.interrupted = "oecd"
            THEN LET newest == getNewestDateForOecdInflationData(inflationTable)
                 IN  NewOecdRun(incrementDate(IF newest = Null THEN OECD_EPOCH ELSE newest, 1))
            ELSE NewAnnualRun("wbInfl",
                     AnnualStart(getNewestDateForWorldBankInflationData(inflationTable)))
    /\ UNCHANGED tables

\* ------------------------------------------------------ two runs at once
\* Two server actions in one process: every await of a storage call is a point where
\* the other run may go on.  The run whose callback holds the event loop is `run`; the
\* suspended one is kept in its field `peer`.
WithoutPeer(r) == [f \in DOMAIN r \ {"peer"} |-> r[f]]

\* both ingestions have their fetched windows: the OECD sync and the World Bank sync
ConcurrentStart(r, rn, OecdWins, WbWins) ==
    /\ r.pc = "idle"
    /\ \E oecdWindow \in OecdWins, wbWindow \in WbWins :
         rn = [peer |-> Fetched("wbInfl", wbWindow)] @@ Fetched("oecd", oecdWindow)
    /\ UNCHANGED tables

\* the running callback awaits and the other run's continuation is taken up
Switch(r, rn) ==
    /\ "peer" \in DOMAIN r
    /\ ~IngestionFinished(r.peer)
    /\ rn = [peer |-> WithoutPeer(r)] @@ r.peer
    /\ UNCHANGED tables

\* --------------------------------------------------- the admin server actions
\* process.env.ADMIN_PASSWORD: unset, or set to a string
AdminPasswordEnv ==
    {[set |-> FALSE, value |-> ""], [set |-> TRUE, value |-> ""],
     [set |-> TRUE, value |-> "secret"]}
SuppliedPasswords == {"", "secret", "Secret", "secret "}
ActionTypes == {"update", "delete", "delete-reimport"}
DataTypes == {"all", "inflation", "income"}
SuppliedDataTypes == DataTypes \cup {"other"}

\* verifyAdminPassword as it would be if an unset ADMIN_PASSWORD let everyone in
MutVerifyAdminPassword(password, adminPassword) ==
    ~adminPassword.set \/ password = adminPassword.value

\* verifyAdminPassword: !adminPassword is true when the variable is unset or empty
verifyAdminPassword(password, adminPassword) ==
    IF ~adminPassword.set \/ adminPassword.value = "" THEN FALSE
    ELSE password = adminPassword.value

WrongPassword == [success |-> FALSE, message |-> <<"Wrong password :(\nPlease try again.">>]
InvalidDataType == [success |-> FALSE, message |-> <<"Invalid data type">>]

\* the result of the catch block as it would be if the error were reported as success
MutErrorResult(kind) == [success |-> TRUE, message |-> <<"Error: ", kind>>]

\* the result of the catch block of the three actions
ErrorResult(kind) == [success |-> FALSE, message |-> <<"Error: ", kind>>]

\* the result after the awaited operation: performUpdateAction reads the counters of
\* the value updateAllData / updateAllInflationData resolve with, which is undefined,
\* inside the try block
Completed(action, dataType) ==
    IF action = "update" /\ dataType \in {"all", "inflation"}
    THEN [success |-> FALSE,
          message |-> <<"Error: ", "Cannot read properties of undefined">>]
    ELSE [success |-> TRUE, message |-> <<"Successfully ", action, dataType>>]

\* the operations an action awaits one after the other
UpdatePlan(dataType) ==
    IF dataType = "all" THEN <<"oecd", "wbInfl", "income">>
    ELSE IF dataType = "inflation" THEN <<"oecd", "wbInfl">>
    ELSE <<"income">>
DeletePlan(dataType) ==
    IF dataType = "all" THEN <<"deleteAllData">>
    ELSE IF dataType = "inflation" THEN <<"deleteAllInflationData">>
    ELSE <<"deleteAllIncomeData">>
Plan(action, dataType) ==
    IF action = "update" THEN UpdatePlan(dataType)
    ELSE IF action = "delete" THEN DeletePlan(dataType)
    ELSE DeletePlan(dataType) \o UpdatePlan(dataType)

\* what the call holds besides the local variables of the operation it awaits
CallFrame(r, plan) ==
    [action |-> r.action, dataType |-> r.dataType, password |-> r.password,
     adminPassword |-> r.adminPassword, plan |-> plan]

\* the first step of an awaited operation: the resume point of a sync, or the entry of
\* a wipe
Begin(stage, thrown) ==
    IF stage = "oecd"
    THEN IF attemptDBCallThrows(thrown) THEN Failed("oecd")
         ELSE LET newest == getNewestDateForOecdInflationData(inflationTable)
              IN  NewOecdRun(incrementDate(IF newest = Null THEN OECD_EPOCH ELSE newest, 1))
    ELSE IF stage = "wbInfl"
    THEN IF attemptDBCallThrows(thrown) THEN Failed("wbInfl")
         ELSE NewAnnualRun("wbInfl",
                  AnnualStart(getNewestDateForWorldBankInflationData(inflationTable)))
    ELSE IF stage = "income"
    THEN IF attemptDBCallThrows(thrown) THEN Failed("income")
         ELSE NewAnnualRun("income", AnnualStart(getNewestDateForIncomeData(incomeTable)))
    ELSE [pc |-> IF stage = "deleteAllIncomeData" THEN "delIncome" ELSE "delInflation",
          kind |-> stage, inflationDeleted |-> 0, incomeDeleted |-> 0,
          countriesDeleted |-> 0]

\* performUpdateAction, performDeleteAction or performDeleteAndReimportAction is called:
\* the password check, then the branch on dataType
AdminCall(r, rn) ==
    /\ r.pc = "idle"
    /\ \E action \in ActionTypes, dataType \in SuppliedDataTypes,
         password \in SuppliedPasswords, adminPassword \in AdminPasswordEnv :
         LET call == [action |-> action, dataType |-> dataType, password |-> password,
                      adminPassword |-> adminPassword]
         IN  IF ~verifyAdminPassword(password, adminPassword)
             THEN rn = [result |-> WrongPassword] @@ call @@ Idle
             ELSE IF dataType \notin DataTypes
             THEN rn = [result |-> InvalidDataType] @@ call @@ Idle
             ELSE rn = [pc |-> "stage", kind |-> "admin",
                        plan |-> Plan(action, dataType)] @@ call
    /\ UNCHANGED tables

\* the next awaited operation begins; an error thrown by it unwinds the call
StageBegin(r, rn) ==
    /\ r.pc = "stage" /\ r.kind = "admin" /\ r.plan # <<>>
    /\ \E thrown \in AttemptsThrown :
         LET begun == Begin(Head(r.plan), thrown)
         IN  rn = IF begun.pc = "failed" THEN begun
                  ELSE CallFrame(r, Tail(r.plan)) @@ begun
    /\ UNCHANGED tables

\* an awaited operation has resolved: the next one, or the result of the action
StageDone(r, rn) ==
    /\ r.pc = "done" /\ "plan" \in DOMAIN r
    /\ rn = IF r.plan # <<>>
            THEN [pc |-> "stage", kind |-> "admin"] @@ CallFrame(r, r.plan)
            ELSE [result |-> Completed(r.action, r.dataType)] @@ CallFrame(r, r.plan)
                     @@ Idle
    /\ UNCHANGED tables

\* an error thrown by an awaited operation reaches the catch block of the action
AdminCatch(r, rn) ==
    /\ r.pc = "failed"
    /\ rn = [result |-> ErrorResult(r.kind)] @@ Idle
    /\ UNCHANGED tables

\* ------------------------------------------------- inflationCsvToJson
\* Text is a sequence of character codes: a digit is its value, "-" is Dash, every
\* other character is its ASCII code.
Newline == 10
CarriageReturn == 13
Space == 32
Quote == 34
Plus == 43
Comma == 44
Dot == 46
TextCountryCode == <<67, 111, 117, 110, 116, 114, 121, 32, 67, 111, 100, 101>>  \* "Country Code"
TextCountryName == <<67, 111, 117, 110, 116, 114, 121, 32, 78, 97, 109, 101>>  \* "Country Name"
TextCountryCodeSnake == <<99, 111, 117, 110, 116, 114, 121, 95, 99, 111, 100, 101>>  \* "country_code"
TextCountryNameSnake == <<99, 111, 117, 110, 116, 114, 121, 95, 110, 97, 109, 101>>  \* "country_name"
TextDataSource == <<68, 97, 116, 97, 32, 83, 111, 117, 114, 99, 101>>  \* "Data Source"
TextLastUpdated == <<76, 97, 115, 116, 32, 85, 112, 100, 97, 116, 101, 100>>  \* "Last Updated"
TextInfinity == <<73, 110, 102, 105, 110, 105, 116, 121>>  \* "Infinity"

IsWhite(c) == c \in {Space, CarriageReturn}

RECURSIVE TrimStart(_)
TrimStart(s) == IF s # <<>> /\ IsWhite(Head(s)) THEN TrimStart(Tail(s)) ELSE s

RECURSIVE TrimEnd(_)
TrimEnd(s) ==
    IF s # <<>> /\ IsWhite(s[Len(s)]) THEN TrimEnd(SubSeq(s, 1, Len(s) - 1)) ELSE s

\* String.prototype.trim
Trim(s) == TrimEnd(TrimStart(s))

\* String.prototype.startsWith and includes
StartsWith(s, p) == Len(s) >= Len(p) /\ SubSeq(s, 1, Len(p)) = p
Includes(s, p) == \E i \in 1..(Len(s) - Len(p) + 1) : SubSeq(s, i, i + Len(p) - 1) = p

\* replace(/"/g, '')
RemoveQuotes(s) == SelectSeq(s, LAMBDA c : c # Quote)

RECURSIVE SplitOn(_, _)
\* String.prototype.split(sep) for a one-character separator
SplitOn(s, sep) ==
    IF \E i \in 1..Len(s) : s[i] = sep
    THEN LET i == CHOOSE i \in 1..Len(s) : s[i] = sep /\ \A j \in 1..(i - 1) : s[j] # sep
         IN  <<SubSeq(s, 1, i - 1)>> \o SplitOn(SubSeq(s, i + 1, Len(s)), sep)
    ELSE <<s>>

\* csv.split('\n').map(line => line.trim()).filter(line => line.length > 0)
CsvLines(csv) ==
    LET split == SplitOn(csv, Newline)
        trimmed == [n \in 1..Len(split) |-> Trim(split[n])]
    IN  SelectSeq(trimmed, LAMBDA line : line # <<>>)

\* line.split(',').map(h => h.trim().replace(/"/g, ''))
HeaderCells(line) ==
    LET split == SplitOn(line, Comma)
    IN  [n \in 1..Len(split) |-> RemoveQuotes(Trim(split[n]))]

\* headers.findIndex(h => h === a || h === b): an index from 0, or -1
FindIndexOfEither(headers, a, b) ==
    IF \E n \in 1..Len(headers) : headers[n] \in {a, b}
    THEN (CHOOSE n \in 1..Len(headers) :
              /\ headers[n] \in {a, b}
              /\ \A j \in 1..(n - 1) : headers[j] \notin {a, b}) - 1
    ELSE -1

Min(a, b) == IF a < b THEN a ELSE b
Max(a, b) == IF a > b THEN a ELSE b

RECURSIVE FindHeader(_, _, _)
\* the loop over the first ten lines that looks for the header row
FindHeader(lines, i, found) ==
    IF i >= Min(10, Len(lines)) THEN found
    ELSE LET line == lines[i + 1]
         IN  IF Includes(line, TextCountryCode) \/ Includes(line, TextCountryName)
             THEN LET headers == HeaderCells(line)
                      here == [headerRowIndex |-> i,
                               countryCodeIndex |->
                                   FindIndexOfEither(headers, TextCountryCode,
                                                     TextCountryCodeSnake),
                               countryNameIndex |->
                                   FindIndexOfEither(headers, TextCountryName,
                                                     TextCountryNameSnake)]
                  IN  IF here.countryCodeIndex # -1 THEN here
                      ELSE FindHeader(lines, i + 1, here)
             ELSE FindHeader(lines, i + 1, found)

\* the columns after the country columns whose header is a 4-digit year
YearColumns(headers, first) ==
    LET indices == [n \in 1..Len(headers) |-> n - 1]
        isYear == SelectSeq(indices, LAMBDA i : i >= first /\ IsYearShape(headers[i + 1]))
    IN  [n \in 1..Len(isYear) |-> [index |-> isYear[n], year |-> headers[isYear[n] + 1]]]

RECURSIVE ParseCsvLine(_, _, _, _, _)
\* the character loop of a data row: a quote toggles inQuotes and is dropped, a comma
\* outside quotes ends the value
ParseCsvLine(line, j, currentValue, inQuotes, values) ==
    IF j > Len(line) THEN Append(values, Trim(currentValue))
    ELSE IF line[j] = Quote THEN ParseCsvLine(line, j + 1, currentValue, ~inQuotes, values)
    ELSE IF line[j] = Comma /\ ~inQuotes
    THEN ParseCsvLine(line, j + 1, <<>>, inQuotes, Append(values, Trim(currentValue)))
    ELSE ParseCsvLine(line, j + 1, Append(currentValue, line[j]), inQuotes, values)

RECURSIVE StripTrailingZeros(_)
StripTrailingZeros(s) ==
    IF s # <<>> /\ s[Len(s)] = 0 THEN StripTrailingZeros(SubSeq(s, 1, Len(s) - 1)) ELSE s

\* a JavaScript number as parseFloat yields it
NaNNumber == [kind |-> "NaN", negative |-> FALSE, int |-> 0, frac |-> <<>>]
InfinityNumber(negative) ==
    [kind |-> "Infinity", negative |-> negative, int |-> 0, frac |-> <<>>]

\* parseFloat: leading white space, a sign, then "Infinity" or the longest decimal
\* literal; NaN when there is none.  Exponents are not decoded: no cell of the inputs
\* carries one.
ParseFloat(s) ==
    LET t == TrimStart(s)
        signed == t # <<>> /\ Head(t) \in {Dash, Plus}
        negative == t # <<>> /\ Head(t) = Dash
        u == IF signed THEN Tail(t) ELSE t
        n == DigitPrefixLen(u)
        rest == SubSeq(u, n + 1, Len(u))
        m == IF rest # <<>> /\ Head(rest) = Dot THEN DigitPrefixLen(Tail(rest)) ELSE 0
    IN  IF StartsWith(u, TextInfinity) THEN InfinityNumber(negative)
        ELSE IF n = 0 /\ m = 0 THEN NaNNumber
        ELSE [kind |-> "number", negative |-> negative,
              int |-> IF n = 0 THEN 0 ELSE DigitsValue(SubSeq(u, 1, n)),
              frac |-> IF m = 0 THEN <<>> ELSE StripTrailingZeros(SubSeq(rest, 2, m + 1))]

IsNaNNumber(v) == v.kind = "NaN"

\* the records of one data row.  getCountryName, used when the row has no name, is not
\* part of the source tree: such a row keeps the empty name here.
RowRecords(line, found, yearColumns) ==
    LET values == ParseCsvLine(line, 1, <<>>, FALSE, <<>>)
        countryCode == Trim(RemoveQuotes(values[found.countryCodeIndex + 1]))
        countryName == IF found.countryNameIndex # -1
                       THEN Trim(RemoveQuotes(values[found.countryNameIndex + 1]))
                       ELSE <<>>
        emitted == SelectSeq(yearColumns,
                      LAMBDA col :
                          /\ col.index < Len(values)
                          /\ LET valueStr == Trim(RemoveQuotes(values[col.index + 1]))
                             IN  valueStr # <<>> /\ ~IsNaNNumber(ParseFloat(valueStr)))
    IN  IF \/ StartsWith(line, TextDataSource) \/ StartsWith(line, TextLastUpdated)
           \/ Len(values) <= Max(found.countryCodeIndex, found.countryNameIndex)
        THEN <<>>
        ELSE IF countryCode = <<>> THEN <<>>
        ELSE [n \in 1..Len(emitted) |->
                 [countryCode |-> countryCode, countryName |-> countryName,
                  timestamp |-> emitted[n].year,
                  inflationRate |->
                      ParseFloat(Trim(RemoveQuotes(values[emitted[n].index + 1])))]]

RECURSIVE RowsRecords(_, _, _, _)
\* the loop over the data rows, from the line after the header row
RowsRecords(lines, i, found, yearColumns) ==
    IF i >= Len(lines) THEN <<>>
    ELSE RowRecords(lines[i + 1], found, yearColumns)
             \o RowsRecords(lines, i + 1, found, yearColumns)

inflationCsvToJson(csv) ==
    LET lines == CsvLines(csv)
        found == FindHeader(lines, 0, [headerRowIndex |-> -1, countryCodeIndex |-> -1,
                                       countryNameIndex |-> -1])
        headers == HeaderCells(lines[found.headerRowIndex + 1])
        yearColumns ==
            YearColumns(headers, Max(found.countryCodeIndex, found.countryNameIndex) + 1)
    IN  IF Len(lines) < 5 THEN <<>>
        ELSE IF found.headerRowIndex = -1 \/ found.countryCodeIndex = -1 THEN <<>>
        ELSE IF yearColumns = <<>> THEN <<>>
        ELSE RowsRecords(lines, found.headerRowIndex + 1, found, yearColumns)

\* ------------------------------------------- inputs of inflationCsvToJson
TextUsa == <<85, 83, 65>>  \* "USA"
TextUnitedStates == <<85, 110, 105, 116, 101, 100, 32, 83, 116, 97, 116, 101, 115>>  \* "United States"
TextKoreaRep == <<75, 111, 114, 101, 97, 44, 32, 82, 101, 112, 46>>  \* "Korea, Rep."
TextNotAvailable == <<110, 47, 97>>  \* "n/a"
Text2020 == <<2, 0, 2, 0>>
Text2021 == <<2, 0, 2, 1>>
Text3p1 == <<3, 46, 1>>  \* "3.1"
Text4p2 == <<4, 46, 2>>  \* "4.2"
TextMinus0p5 == <<Dash, 0, 46, 5>>  \* "-0.5"

CsvStyles == {"plain", "spaced", "quoted"}
CsvCells == {Text3p1, Text4p2, TextMinus0p5, <<>>, TextInfinity, TextNotAvailable}

\* a bulk file: three preamble lines, the header row and one data row
CsvDocuments ==
    {[style |-> style, countryCode |-> code, countryName |-> name, cells |-> <<a, b>>] :
        style \in CsvStyles, code \in {TextUsa, <<>>},
        name \in {TextUnitedStates, TextKoreaRep}, a \in CsvCells, b \in CsvCells}

RECURSIVE JoinWith(_, _)
JoinWith(parts, sep) ==
    IF parts = <<>> THEN <<>>
    ELSE IF Len(parts) = 1 THEN parts[1]
    ELSE parts[1] \o sep \o JoinWith(Tail(parts), sep)

\* a line of the file in one of the three styles the source serves; a name with a
\* comma is always quoted
CsvLine(cells, style) ==
    LET quoted == [n \in 1..Len(cells) |->
                      IF style = "quoted" \/ (\E k \in 1..Len(cells[n]) : cells[n][k] = Comma)
                      THEN <<Quote>> \o cells[n] \o <<Quote>> ELSE cells[n]]
    IN  JoinWith(quoted, IF style = "spaced" THEN <<Comma, Space>> ELSE <<Comma>>)

CsvText(doc) ==
    JoinWith(<<CsvLine(<<TextDataSource, TextNotAvailable>>, doc.style),
               <<>>,
               CsvLine(<<TextLastUpdated, Text2021>>, doc.style),
               CsvLine(<<TextNotAvailable>>, doc.style),
               CsvLine(<<TextCountryCode, TextCountryName, Text2020, Text2021>>, doc.style),
               CsvLine(<<doc.countryCode, doc.countryName>> \o doc.cells, doc.style)>>,
             <<CarriageReturn, Newline>>)

\* inflationCsvToJson is called on a downloaded file
CsvDecode(r, rn) ==
    /\ r.pc = "idle"
    /\ \E doc \in CsvDocuments :
         rn = [pc |-> "decoded", kind |-> "csv", doc |-> doc,
               result |-> inflationCsvToJson(CsvText(doc))]
    /\ UNCHANGED tables

\* the caller takes the records
CsvReturn(r, rn) ==
    /\ r.pc = "decoded"
    /\ rn = Idle
    /\ UNCHANGED tables

\* ------------------------------------------------------------ the current month
NowMonth == 6
\* new Date().toISOString().slice(0, 7); the loop test of the OECD sync keeps the year
Now == Month(NowYear, NowMonth)

\* ----------------------------------------- a run over two windows with data
\* what the OECD endpoint serves: more than one batch in each of two successive
\* windows of the loop, the earlier one over two calendar years
SeriesOecd ==
    [n \in 1..LongLen |->
        [countryCode |-> "DEU", countryName |-> "",
         timestamp |-> Month(IF n <= 3 THEN NowYear - 7 ELSE NowYear - 6, n),
         inflationRate |-> 1]] \o LongOecdWindow

\* getOecdInflationData(startDate, incrementedDate) against the two-window series; the
\* request can fail
OecdFetchSeries(r, rn) ==
    /\ r.pc = "loop" /\ r.kind = "oecd"
    /\ StrLessEq(r.startDate, NumToString(NowYear))
    /\ LET incrementedDate == incrementDate(r.startDate, WINDOW_MONTHS)
           InWindow(d) == OecdInWindow(d, r.startDate, incrementedDate)
       IN  \/ rn = Failed("oecd")
           \/ rn = OecdFetched(r, incrementedDate, Filter(SeriesOecd, InWindow))
    /\ UNCHANGED tables

\* ---------------------------------------- record-level operations in flight
\* a window whose records lie in more country/years than a batch holds
WideOecdWindow ==
    [n \in 1..LongLen |->
        [countryCode |-> "DEU", countryName |-> "", timestamp |-> Month(NowYear - n, 6),
         inflationRate |-> 1]]

CallbackPcs == {"addCountry", "insert", "check", "hasAny", "country", "select", "write"}

\* the callbacks a run has started and that have not settled: batch.map starts every
\* callback of the batch before Promise.allSettled waits, and Array.from(
\* addedCountryYears).map starts every deletion of the window before it waits
InFlight(r) ==
    IF r.pc \in CallbackPcs THEN BatchLen(r) - Len(r.results)
    ELSE IF r.pc = "delete" THEN Cardinality(r.pendingDeletes)
    ELSE 0

\* --------------------------------------------- fetched periods of any shape
\* "2021-06", "2021", "2021-Q2" and "21"
ShapePeriods == {Month(NowYear - 1, 6), Year(NowYear - 1),
                 Year(NowYear - 1) \o <<Dash, 81, 2>>, <<2, 1>>}
ShapeOecdWindows ==
    SeqsUpTo({[countryCode |-> "DEU", countryName |-> "", timestamp |-> t,
               inflationRate |-> 1] : t \in ShapePeriods}, MaxWindow)
ShapeWbWindows ==
    SeqsUpTo({[countryCode |-> "DEU", countryName |-> "Germany", timestamp |-> t,
               inflationRate |-> 1] : t \in ShapePeriods}, MaxWindow)
ShapeIncomeWindows ==
    {<<ppp, <<>>, <<>>>> :
        ppp \in SeqsUpTo({[countryCode |-> "DEU", countryName |-> "Germany",
                           timestamp |-> t, incomeValue |-> 1] : t \in ShapePeriods},
                         MaxWindow)}

\* -------------------------------------------------- a wipe of a filled store
\* deleteAllData, deleteAllInflationData or deleteAllIncomeData is called; the call
\* carries the number of rows each table holds at that moment
WipeCall(r, rn) ==
    /\ r.pc = "idle"
    /\ \E kind \in {"deleteAllData", "deleteAllInflationData", "deleteAllIncomeData"} :
         rn = [before |-> <<Cardinality(inflationTable), Cardinality(incomeTable),
                            Cardinality(countryTable)>>,
               pc |-> IF kind = "deleteAllIncomeData" THEN "delIncome" ELSE "delInflation",
               kind |-> kind, inflationDeleted |-> 0, incomeDeleted |-> 0,
               countriesDeleted |-> 0]
    /\ UNCHANGED tables

\* ------------------------------------ a run whose windows share a period
\* the last period of the first window of a run on an empty store, which is the first
\* period of the second window as well
BoundaryPeriod == incrementDate(incrementDate(OECD_EPOCH, 1), WINDOW_MONTHS)

\* what the OECD endpoint serves: the boundary period and the period after it
BoundaryOecd ==
    <<[countryCode |-> "DEU", countryName |-> "", timestamp |-> BoundaryPeriod,
       inflationRate |-> 1],
      [countryCode |-> "DEU", countryName |-> "",
       timestamp |-> incrementDate(BoundaryPeriod, 1), inflationRate |-> 2]>>

\* updateInflationDataFromOecd is called; the run carries the inflation rows stored
\* at that moment
OecdCall(r, rn) ==
    \E r0 \in {Failed("oecd")} \cup
               {NewOecdRun(incrementDate(d, 1)) :
                    d \in {OECD_EPOCH} \cup {x.timestamp : x \in inflationTable}} :
        /\ OecdStart(r, r0)
        /\ rn = IF r0.pc = "failed" THEN r0 ELSE [stored |-> inflationTable] @@ r0

\* getOecdInflationData(startDate, incrementedDate) against the boundary data
OecdFetchBoundary(r, rn) ==
    /\ r.pc = "loop" /\ r.kind = "oecd"
    /\ StrLessEq(r.startDate, NumToString(NowYear))
    /\ LET incrementedDate == incrementDate(r.startDate, WINDOW_MONTHS)
           InWindow(d) == OecdInWindow(d, r.startDate, incrementedDate)
       IN  rn = OecdFetched(r, incrementedDate, Filter(BoundaryOecd, InWindow))
    /\ UNCHANGED tables

\* --------------------------------------- annual syncs on a store with gaps
\* what the World Bank serves at some moment: any of two years, in any order
AnnualWbRecords ==
    {[countryCode |-> "DEU", countryName |-> "Germany", timestamp |-> t,
      inflationRate |-> v] : t \in {Year(NowYear - 2), Year(NowYear - 1)}, v \in {1, 2}}
AnnualIncomeItems ==
    {[countryCode |-> "DEU", countryName |-> "Germany", timestamp |-> t,
      incomeValue |-> v] : t \in {Year(NowYear - 2), Year(NowYear - 1)}, v \in {1, 2}}

\* updateWorldBankInflationData is called; the run carries the inflation rows stored
\* at that moment
WbCall(r, rn) ==
    \E r0 \in {Failed("wbInfl")} \cup
               {NewAnnualRun("wbInfl", AnnualStart(d)) :
                    d \in {Null} \cup {x.timestamp : x \in inflationTable}} :
        /\ WbStart(r, r0)
        /\ rn = IF r0.pc = "failed" THEN r0 ELSE [stored |-> inflationTable] @@ r0

\* updateWorldBankIncomeData is called; the run carries the income rows stored at that
\* moment
IncomeCall(r, rn) ==
    \E r0 \in {Failed("income")} \cup
               {NewAnnualRun("income", AnnualStart(d)) :
                    d \in {Null} \cup {x.timestamp : x \in incomeTable}} :
        /\ IncomeStart(r, r0)
        /\ rn = IF r0.pc = "failed" THEN r0 ELSE [stored |-> incomeTable] @@ r0

\* ----------------------------------------------------------- specification
Init ==
    /\ countryTable = {}
    /\ inflationTable = {}
    /\ incomeTable = {}
    /\ run = Idle

Next ==
    \/ OecdStart(run, run')
    \/ OecdFetch(run, run', OecdRecords, MaxWindow)
    \/ OecdFinish(run, run')
    \/ OecdAddCountry(run, run')
    \/ OecdInsert(run, run')
    \/ OecdSettle(run, run')
    \/ OecdDelete(run, run')
    \/ WbStart(run, run')
    \/ WbFetch(run, run', WbRecords, MaxWindow)
    \/ WbCheck(run, run')
    \/ CountryHasAny(run, run')
    \/ CountryUpsert(run, run')
    \/ WbSettle(run, run')
    \/ WbInsert(run, run')
    \/ IncomeStart(run, run')
    \/ IncomeFetch(run, run', IncomeItems, MaxIncome)
    \/ IncomeSelect(run, run')
    \/ IncomeWrite(run, run')
    \/ WipeStart(run, run')
    \/ DeleteAllInflation(run, run')
    \/ DeleteAllIncome(run, run')
    \/ DeleteAllCountry(run, run')
    \/ Return(run, run')

Spec == Init /\ [][Next]_vars

\* the ingestion stage of the three syncs on any window, once or twice in a row
NextIngest ==
    \/ Ingest(run, run', "oecd", OecdWindows)
    \/ Ingest(run, run', "wbInfl", WbWindows)
    \/ Ingest(run, run', "income", IncomeWindows)
    \/ Reingest(run, run')
    \/ IngestReturn(run, run')
    \/ OecdAddCountry(run, run')
    \/ OecdInsert(run, run')
    \/ OecdSettle(run, run')
    \/ OecdDelete(run, run')
    \/ WbCheck(run, run')
    \/ CountryHasAny(run, run')
    \/ CountryUpsert(run, run')
    \/ WbSettle(run, run')
    \/ WbInsert(run, run')
    \/ IncomeSelect(run, run')
    \/ IncomeWrite(run, run')

SpecIngest == Init /\ [][NextIngest]_vars

\* the ingestion stage of one sync on a window of more than one batch
NextBatch ==
    \/ Ingest(run, run', "oecd", {LongOecdWindow})
    \/ Ingest(run, run', "wbInfl", {LongWbWindow})
    \/ Ingest(run, run', "income", {LongIncomeWindow})
    \/ OecdAddCountry(run, run')
    \/ OecdInsert(run, run')
    \/ OecdSettle(run, run')
    \/ OecdDelete(run, run')
    \/ WbCheck(run, run')
    \/ CountryHasAny(run, run')
    \/ CountryUpsert(run, run')
    \/ WbSettle(run, run')
    \/ WbInsert(run, run')
    \/ IncomeSelect(run, run')
    \/ IncomeWrite(run, run')

SpecBatch == Init /\ [][NextBatch]_vars

\* one storage call under attemptDBCall, attempt by attempt
NextDbCall ==
    \/ DbCallStart(run, run')
    \/ DbCallAttempt(run, run')
    \/ DbCallWait(run, run')
    \/ DbCallEnd(run, run')

SpecDbCall == Init /\ [][NextDbCall]_vars

\* one call of a source client, response by response
NextFetchCall ==
    \/ FetchCallStart(run, run')
    \/ FetchResponse(run, run')
    \/ FetchWait(run, run')
    \/ FetchCallEnd(run, run')

SpecFetchCall == Init /\ [][NextFetchCall]_vars

\* a sync against fixed upstream data, interrupted at any point and run again
NextInterrupt ==
    \/ OecdStart(run, run')
    \/ OecdFetchUpstream(run, run')
    \/ OecdFinish(run, run')
    \/ OecdAddCountry(run, run')
    \/ OecdInsert(run, run')
    \/ OecdSettle(run, run')
    \/ OecdDelete(run, run')
    \/ WbStart(run, run')
    \/ WbFetchUpstream(run, run')
    \/ WbCheck(run, run')
    \/ CountryHasAny(run, run')
    \/ CountryUpsert(run, run')
    \/ WbInsert(run, run')
    \/ WbSettle(run, run')
    \/ Interrupt(run, run')
    \/ Rerun(run, run')

SpecInterrupt == Init /\ [][NextInterrupt]_vars

\* an OECD ingestion and a World Bank ingestion interleaved at storage-call granularity
NextConcurrent ==
    \/ ConcurrentStart(run, run', OecdWindows, WbWindows)
    \/ Switch(run, run')
    \/ OecdAddCountry(run, run')
    \/ OecdInsert(run, run')
    \/ OecdSettle(run, run')
    \/ OecdDelete(run, run')
    \/ WbCheck(run, run')
    \/ CountryHasAny(run, run')
    \/ CountryUpsert(run, run')
    \/ WbInsert(run, run')
    \/ WbSettle(run, run')

SpecConcurrent == Init /\ [][NextConcurrent]_vars

\* the three admin actions, called one at a time with any password
NextAdmin ==
    \/ AdminCall(run, run')
    \/ StageBegin(run, run')
    \/ StageDone(run, run')
    \/ AdminCatch(run, run')
    \/ OecdFetch(run, run', OecdWindowRecords, MaxIncome)
    \/ OecdFinish(run, run')
    \/ OecdAddCountry(run, run')
    \/ OecdInsert(run, run')
    \/ OecdSettle(run, run')
    \/ OecdDelete(run, run')
    \/ WbFetch(run, run', WbWindowRecords, MaxIncome)
    \/ WbCheck(run, run')
    \/ CountryHasAny(run, run')
    \/ CountryUpsert(run, run')
    \/ WbSettle(run, run')
    \/ WbInsert(run, run')
    \/ IncomeFetch(run, run', IncomeWindowItems, MaxIncome)
    \/ IncomeSelect(run, run')
    \/ IncomeWrite(run, run')
    \/ DeleteAllInflation(run, run')
    \/ DeleteAllIncome(run, run')
    \/ DeleteAllCountry(run, run')

SpecAdmin == Init /\ [][NextAdmin]_vars

\* the decoder of the bulk CSV files, called on one file at a time
NextCsv ==
    \/ CsvDecode(run, run')
    \/ CsvReturn(run, run')

SpecCsv == Init /\ [][NextCsv]_vars

\* the OECD sync run after run against the two-window series
NextSeries ==
    \/ OecdStart(run, run')
    \/ OecdFetchSeries(run, run')
    \/ OecdFinish(run, run')
    \/ OecdAddCountry(run, run')
    \/ OecdInsert(run, run')
    \/ OecdSettle(run, run')
    \/ OecdDelete(run, run')
    \/ Return(run, run')

SpecSeries == Init /\ [][NextSeries]_vars

\* the ingestion of a window of more country/years than a batch holds
NextWide ==
    \/ Ingest(run, run', "oecd", {WideOecdWindow})
    \/ OecdAddCountry(run, run')
    \/ OecdInsert(run, run')
    \/ OecdSettle(run, run')
    \/ OecdDelete(run, run')
    \/ IngestReturn(run, run')

SpecWide == Init /\ [][NextWide]_vars

\* the ingestion stage of the three syncs fed records whose periods have any shape
NextShape ==
    \/ Ingest(run, run', "oecd", ShapeOecdWindows)
    \/ Ingest(run, run', "wbInfl", ShapeWbWindows)
    \/ Ingest(run, run', "income", ShapeIncomeWindows)
    \/ OecdAddCountry(run, run')
    \/ OecdInsert(run, run')
    \/ OecdSettle(run, run')
    \/ OecdDelete(run, run')
    \/ WbCheck(run, run')
    \/ CountryHasAny(run, run')
    \/ CountryUpsert(run, run')
    \/ WbSettle(run, run')
    \/ WbInsert(run, run')
    \/ IncomeSelect(run, run')
    \/ IncomeWrite(run, run')
    \/ IngestReturn(run, run')

SpecShape == Init /\ [][NextShape]_vars

\* ingestions of the three syncs and wipes, one after the other
NextWipe ==
    \/ Ingest(run, run', "oecd", OecdWindows)
    \/ Ingest(run, run', "wbInfl", WbWindows)
    \/ Ingest(run, run', "income", IncomeWindows)
    \/ IngestReturn(run, run')
    \/ OecdAddCountry(run, run')
    \/ OecdInsert(run, run')
    \/ OecdSettle(run, run')
    \/ OecdDelete(run, run')
    \/ WbCheck(run, run')
    \/ CountryHasAny(run, run')
    \/ CountryUpsert(run, run')
    \/ WbSettle(run, run')
    \/ WbInsert(run, run')
    \/ IncomeSelect(run, run')
    \/ IncomeWrite(run, run')
    \/ WipeCall(run, run')
    \/ DeleteAllInflation(run, run')
    \/ DeleteAllIncome(run, run')
    \/ DeleteAllCountry(run, run')
    \/ Return(run, run')

SpecWipe == Init /\ [][NextWipe]_vars

\* the syncs against the upstream data, and the two retry loops on their own
NextTerminate ==
    \/ OecdStart(run, run')
    \/ OecdFetchUpstream(run, run')
    \/ OecdFinish(run, run')
    \/ OecdAddCountry(run, run')
    \/ OecdInsert(run, run')
    \/ OecdSettle(run, run')
    \/ OecdDelete(run, run')
    \/ WbStart(run, run')
    \/ WbFetchUpstream(run, run')
    \/ WbCheck(run, run')
    \/ CountryHasAny(run, run')
    \/ CountryUpsert(run, run')
    \/ WbSettle(run, run')
    \/ WbInsert(run, run')
    \/ Return(run, run')
    \/ FetchCallStart(run, run')
    \/ FetchResponse(run, run')
    \/ FetchWait(run, run')
    \/ FetchCallEnd(run, run')
    \/ DbCallStart(run, run')
    \/ DbCallAttempt(run, run')
    \/ DbCallWait(run, run')
    \/ DbCallEnd(run, run')

\* Every network and storage call returns, so a run in progress takes the step that
\* follows it; nothing obliges a new run to start.
SpecTerminate ==
    Init /\ [][NextTerminate]_vars /\ WF_vars(run.pc # "idle" /\ NextTerminate)

\* the OECD sync run after run against data that lies on a window boundary
NextBoundary ==
    \/ OecdCall(run, run')
    \/ OecdFetchBoundary(run, run')
    \/ OecdFinish(run, run')
    \/ OecdAddCountry(run, run')
    \/ OecdInsert(run, run')
    \/ OecdSettle(run, run')
    \/ OecdDelete(run, run')
    \/ Return(run, run')

SpecBoundary == Init /\ [][NextBoundary]_vars

\* the two annual syncs, run after run, each on what the World Bank serves then
NextAnnual ==
    \/ WbCall(run, run')
    \/ WbFetch(run, run', AnnualWbRecords, MaxWindow)
    \/ WbCheck(run, run')
    \/ CountryHasAny(run, run')
    \/ CountryUpsert(run, run')
    \/ WbInsert(run, run')
    \/ WbSettle(run, run')
    \/ IncomeCall(run, run')
    \/ IncomeFetch(run, run', AnnualIncomeItems, MaxIncome)
    \/ IncomeSelect(run, run')
    \/ IncomeWrite(run, run')
    \/ Return(run, run')

SpecAnnual == Init /\ [][NextAnnual]_vars

\* ------------------------------------------------------------------ claims
\* no run is in the middle of its work
Quiescent == run.pc \in {"idle", "done", "failed"}

\* an annual row (E, "Y") is stored together with a monthly row (E, "Y-MM")
AnnualBesideMonthly ==
    \E a \in inflationTable, m \in inflationTable :
        /\ a.countryCode = m.countryCode
        /\ IsYearShape(a.timestamp)
        /\ IsMonthShape(m.timestamp)
        /\ LikeYearDash(m.timestamp, a.timestamp)

\* C1: after any sequence of OECD and World Bank inflation sync runs, storage never
\* holds the annual row (E, "Y") while it holds a monthly row (E, "Y-MM").
C1_PriorityInvariant == Quiescent => ~AnnualBesideMonthly

\* C2: when the OECD sync ingests a monthly observation (E, "YYYY-MM") while the annual
\* row (E, "YYYY") is stored, then once the window has finished the annual row is gone
\* and a monthly row of that year exists.
C2_Supersede ==
    (run.kind = "oecd" /\ run.pc \in {"loop", "done"}) =>
        \A cy \in run.addedCountryYears :
            /\ ~\E a \in inflationTable : a.countryCode = cy[1] /\ a.timestamp = cy[2]
            /\ \E m \in inflationTable :
                   m.countryCode = cy[1] /\ Substring(m.timestamp, 5) = cy[2] \o <<Dash>>

\* C3: after the OECD sync has ingested an observation of entity E, the flag
\* hasMonthlyInflationData of E is true, whatever the state of E was before.
C3_FlagAfterOecdIngestion ==
    (run.kind = "oecd" /\ run.pc # "failed") =>
        \A cy \in run.addedCountryYears :
            \E c \in countryTable : c.code = cy[1] /\ c.hasMonthlyInflationData

\* C4: once hasMonthlyInflationData(E) is true, no step sets it back to false; the row
\* of E, and its flag with it, disappears only in the delete of all countries.
C4_FlagMonotone ==
    [][\A c \in countryTable :
          c.hasMonthlyInflationData =>
              \/ \E d \in countryTable' : d.code = c.code /\ d.hasMonthlyInflationData
              \/ run.pc = "delCountries" /\ countryTable' = {}]_vars

\* a false-intending upsert has just acted on an entity whose flag is true
C4_Witness ==
    /\ run.kind \in {"wbInfl", "income"} /\ run.pc \in {"insert", "select"}
    /\ ~run.finalHasMonthly
    /\ \E c \in countryTable :
           c.code = Cur(run).countryCode /\ c.hasMonthlyInflationData

\* a row (E, "Y-MM") is stored for some month MM of the year Y
HasMonthOfYear(countryCode, year) ==
    \E r \in inflationTable, m \in 1..12 :
        /\ r.countryCode = countryCode
        /\ r.timestamp = year \o <<Dash>> \o PadStart2(NumToString(m))

\* the World Bank sync is about to process a valid record whose year has monthly data
WbAtSuperseded ==
    /\ run.kind = "wbInfl" /\ run.pc = "check"
    /\ HasMonthOfYear(Cur(run).countryCode, Cur(run).timestamp)

\* the counters of a settled World Bank batch: skipped records are duplicates and
\* rejected ones are errors
WbCountsSettled ==
    (run.kind = "wbInfl" /\ run.pc = "settle") =>
        /\ run'.totalDuplicates = run.totalDuplicates + CountOf(run.results, "skipped")
        /\ run'.totalErrors = run.totalErrors + CountOf(run.results, "rejected")
        /\ run'.totalRecordsAdded = run.totalRecordsAdded + CountOf(run.results, "added")

\* C5 as claimed: a valid World Bank record (E, Y) with a monthly row of Y stored causes
\* no write at all and is counted as a duplicate, not as an error.
C5_SkipAlwaysDuplicate ==
    [][/\ WbAtSuperseded =>
            UNCHANGED tables /\ run'.results = Append(run.results, "skipped")
       /\ WbCountsSettled]_vars

\* C5 as amended: no write at all; the record is counted as a duplicate, or as an error
\* when the existence check itself threw after its retries.
C5_SkipNoWrite ==
    [][/\ WbAtSuperseded =>
            /\ UNCHANGED tables
            /\ \E status \in {"skipped", "rejected"} :
                   run'.results = Append(run.results, status)
       /\ WbCountsSettled]_vars

\* a record has just been skipped because monthly data of its year is stored
C5_Witness ==
    /\ run.kind = "wbInfl" /\ run.pc \in {"check", "settle"}
    /\ run.results # <<>> /\ run.results[Len(run.results)] = "skipped"
    /\ inflationTable # {}

\* the stored monthly periods as (year, month) pairs, and the stored years
ClaimYears == (NowYear - 2)..(NowYear + 1)
StoredMonths ==
    {ym \in ClaimYears \X (1..12) :
        \E r \in inflationTable : r.timestamp = Month(ym[1], ym[2])}
StoredYears(table) ==
    {y \in ClaimYears : \E r \in table : r.timestamp = Year(y)}
Later(a, b) == a[1] > b[1] \/ (a[1] = b[1] /\ a[2] >= b[2])
GreatestMonth == CHOOSE a \in StoredMonths : \A b \in StoredMonths : Later(a, b)
GreatestYear(table) == CHOOSE a \in StoredYears(table) : \A b \in StoredYears(table) : a >= b
FollowingMonth(ym) == IF ym[2] = 12 THEN <<ym[1] + 1, 1>> ELSE <<ym[1], ym[2] + 1>>

\* C9: the resume point of the OECD sync is the month following the greatest stored
\* "YYYY-MM" period (December rolls over to January); the resume point of an annual
\* sync is the greatest stored year plus one.
C9_ResumePoint ==
    /\ (run.kind = "oecd" /\ run.pc = "loop" /\ run.incrementedDate = <<>>
            /\ StoredMonths # {}) =>
           run.startDate = Month(FollowingMonth(GreatestMonth)[1],
                                 FollowingMonth(GreatestMonth)[2])
    /\ (run.kind = "wbInfl" /\ run.pc = "fetch" /\ StoredYears(inflationTable) # {}) =>
           run.startDate = Year(GreatestYear(inflationTable) + 1)
    /\ (run.kind = "income" /\ run.pc = "fetch" /\ StoredYears(incomeTable) # {}) =>
           run.startDate = Year(GreatestYear(incomeTable) + 1)

\* an OECD run has resumed after a December while annual rows are stored too
C9_Witness ==
    /\ run.kind = "oecd" /\ run.pc = "loop" /\ run.incrementedDate = <<>>
    /\ StoredMonths # {} /\ GreatestMonth[2] = 12
    /\ StoredYears(inflationTable) # {}


\* the second ingestion of a window is under way or has finished
SecondIngestion == run.pc # "idle" /\ run.phase = 2

IncomeRowOf(inc, data) ==
    {x \in inc : x.countryCode = data.countryCode /\ x.timestamp = data.timestamp}

\* the stored row for the record being written was made from a record that supplied
\* only the PPP value, and the record being written supplies only the growth rate
OnlyGrowthOntoOnlyPpp ==
    /\ run.kind = "income" /\ run.pc = "write" /\ run.existing
    /\ Cur(run).ppp_international_dollars = Undefined
    /\ Cur(run).current_local_currency = Undefined
    /\ Cur(run).annual_growth_rate # Undefined
    /\ \E x \in IncomeRowOf(incomeTable, Cur(run)) :
         /\ x.ppp_international_dollars # 0
         /\ x.current_local_currency = 0 /\ x.annual_growth_rate = 0

\* C7: ingesting a growth-only record onto a stored row for which only the PPP value
\* was supplied leaves a row with the PPP value unchanged, the growth rate the new
\* value, and the local-currency value still absent.
C7_MergeNotOverwrite ==
    [][(OnlyGrowthOntoOnlyPpp /\ incomeTable' # incomeTable) =>
          \A x \in IncomeRowOf(incomeTable, Cur(run)) :
              IncomeRowOf(incomeTable', Cur(run)) =
                  {[x EXCEPT !.annual_growth_rate = Cur(run).annual_growth_rate,
                             !.current_local_currency = Undefined]}]_vars

\* C8: no sync writes a record carrying a non-finite value in a supplied field: every
\* stored inflation value and every stored income value is finite.
C8_NonFiniteNeverWritten ==
    /\ \A x \in inflationTable : IsFinite(x.inflationValue)
    /\ \A x \in incomeTable :
         /\ IsFinite(x.ppp_international_dollars)
         /\ IsFinite(x.current_local_currency)
         /\ IsFinite(x.annual_growth_rate)

\* the record is in storage as its sync writes it
Committed(kind, data) ==
    IF kind = "income"
    THEN \E x \in incomeTable :
            /\ x.countryCode = data.countryCode /\ x.timestamp = data.timestamp
            /\ x.ppp_international_dollars = data.ppp_international_dollars
    ELSE \E x \in inflationTable :
            /\ x.countryCode = data.countryCode /\ x.timestamp = data.timestamp
            /\ x.inflationValue = data.inflationRate

\* a batch is being processed or has just settled
InBatch == run.pc \notin {"idle", "loop", "delete", "done", "failed"}

\* C10: in any batch, a record whose storage call throws after its retries does not
\* keep the other records of the batch from being committed (every record of the
\* batch settles, and every one that did not throw is in storage), adds exactly one
\* to the error count when the batch settles, and the run goes on to the next batch.
C10_BatchIsolation ==
    [][/\ InBatch =>
            \A n \in 1..Len(run.results) :
                run.results[n] \in {"fulfilled", "added"} =>
                    Committed(run.kind, run.validData[run.i + n])
       /\ (InBatch /\ run.pc = "settle") =>
            /\ Len(run.results) = BatchLen(run)
            /\ run'.pc # "failed"
            /\ run'.totalErrors = run.totalErrors + CountOf(run.results, "rejected")
            /\ run.i + BATCH_SIZE < Len(run.validData) =>
                  /\ run'.i = run.i + BATCH_SIZE /\ run'.k = 1 /\ run'.results = <<>>
                  /\ run'.pc \in {"addCountry", "check", "hasAny"}
                  /\ run'.validData = run.validData]_vars

\* a full batch in which one write threw: the other records are committed, one error
\* is counted and the next batch has begun
C10_Witness ==
    /\ InBatch /\ run.i = BATCH_SIZE /\ run.pc # "settle"
    /\ run.totalErrors = 1 /\ run.totalRecordsAdded = BATCH_SIZE - 1
    /\ Cardinality(inflationTable) + Cardinality(incomeTable) = BATCH_SIZE - 1

InDbCall == run.kind = "attemptDBCall"
AllThrew(outcomes) == \A n \in 1..Len(outcomes) : ~outcomes[n].ok

\* C11: attemptDBCall invokes the wrapped call at most MAX_RETRIES + 1 times; it returns
\* the value of the first attempt that succeeds and attempts nothing after it; it throws
\* exactly when MAX_RETRIES + 1 attempts have all thrown, and the error thrown carries
\* the description of the call and the message of the last error.
C11_RetryableStorageCall ==
    InDbCall =>
        /\ Len(run.outcomes) <= MAX_RETRIES + 1
        /\ \A n \in 1..Len(run.outcomes) :
               run.outcomes[n].ok => n = Len(run.outcomes) /\ run.pc = "returned"
        /\ run.pc = "returned" =>
               /\ run.outcomes # <<>>
               /\ run.outcomes[Len(run.outcomes)].ok
               /\ run.result = run.outcomes[Len(run.outcomes)].value
        /\ run.pc = "thrown" <=>
               (Len(run.outcomes) = MAX_RETRIES + 1 /\ AllThrew(run.outcomes))
        /\ run.pc = "thrown" =>
               run.error = <<"Max retries reached for calling database: ", run.description,
                             ". Last error: ", run.outcomes[MAX_RETRIES + 1].message>>

\* a call that succeeded on its last permitted attempt
C11_Witness ==
    /\ InDbCall /\ run.pc = "returned"
    /\ Len(run.outcomes) = MAX_RETRIES + 1

\* C12: in both source clients every response with status 429 is answered by a retry
\* after RETRY_AFTER * RETRY_MULTIPLIER^k ms, k the number of 429 responses received
\* before it in this call; the call fails only when a 429 arrives after MAX_RETRIES
\* retries; any other non-2xx response makes the call fail at once.
C12_RateLimitBackoff ==
    [][(run.kind \in SourceClients /\ run.pc = "request") =>
          /\ run'.response.status = 429 =>
                IF run.received429 < API_MAX_RETRIES
                THEN /\ run'.pc = "wait"
                     /\ run'.waitTime = RETRY_AFTER * Pow(RETRY_MULTIPLIER, run.received429)
                ELSE run'.pc = "thrown"
          /\ (~ResponseOk(run'.response) /\ run'.response.status # 429) =>
                run'.pc = "thrown"]_vars

\* every record the source serves is in storage
AllStored(upstream) ==
    \A n \in 1..Len(upstream) : Committed("inflation", upstream[n])

\* the new run of an interrupted sync has completed, and no storage call threw in the
\* interrupted run or in the new one
RerunCompleted(kind) ==
    /\ run.pc = "done" /\ run.kind = kind
    /\ "interrupted" \in DOMAIN run
    /\ run.clean /\ run.totalErrors = 0

\* C13: when a sync run is interrupted at any point and a new run is then executed to
\* completion against the same upstream data, storage holds what an uninterrupted run
\* stores: every record the source serves (no record is permanently missing).
C13_CrashRestartable ==
    /\ RerunCompleted("oecd") => AllStored(UpstreamOecd)
    /\ RerunCompleted("wbInfl") => AllStored(UpstreamWb)

\* both concurrent ingestions have finished, and neither counted an error: every
\* record was valid and no storage call threw
BothFinishedClean ==
    /\ "peer" \in DOMAIN run
    /\ IngestionFinished(run) /\ IngestionFinished(run.peer)
    /\ run.totalErrors = 0 /\ run.peer.totalErrors = 0

OneRowPerPeriod ==
    \A x, y \in inflationTable :
        (x.countryCode = y.countryCode /\ x.timestamp = y.timestamp) => x = y

\* C14: under every interleaving of an OECD ingestion of (E, "Y-MM") and a World Bank
\* ingestion of (E, "Y"), once both have finished storage holds no annual row (E, "Y")
\* beside a monthly row of year Y, and at most one row per (entity, period).
C14_ConcurrentRuns ==
    BothFinishedClean => (~AnnualBesideMonthly /\ OneRowPerPeriod)

\* the call in progress passed the password check with the exact ADMIN_PASSWORD
Authorised(r) ==
    /\ "password" \in DOMAIN r
    /\ r.adminPassword.set /\ r.password = r.adminPassword.value

\* the call just made supplied a password that is not ADMIN_PASSWORD, or none is set
Mismatch(r) ==
    /\ "password" \in DOMAIN r
    /\ ~r.adminPassword.set \/ r.password # r.adminPassword.value

\* C15: the three admin actions start no update, delete or resync operation unless the
\* supplied password equals ADMIN_PASSWORD exactly; on a mismatch, and for every
\* supplied password when ADMIN_PASSWORD is unset, they return success = false with the
\* "Wrong password" message, which differs from the "Error: ..." result of a failure,
\* and storage is unchanged.
C15_AdminGate ==
    [][/\ (run.pc = "idle" /\ Mismatch(run')) =>
            /\ run'.pc = "idle"
            /\ run'.result = WrongPassword
            /\ run'.result.message[1] # "Error: "
            /\ tables' = tables
       /\ (run.pc = "idle" /\ run'.pc # "idle") => Authorised(run')
       /\ run'.pc = "stage" => Authorised(run')
       /\ tables' # tables => Authorised(run)]_vars

\* ADMIN_PASSWORD is unset and the empty password was supplied: wrong password
C15_Witness ==
    /\ run.pc = "idle" /\ "password" \in DOMAIN run
    /\ ~run.adminPassword.set /\ run.password = ""
    /\ run.result = WrongPassword
    /\ inflationTable # {}

FiniteCell(cell) == cell # <<>> /\ ParseFloat(cell).kind = "number"

\* the records the file stands for: one per year column of the row whose cell is a
\* finite number, none when the row has no country code
ExpectedRecords(doc) ==
    LET years == <<Text2020, Text2021>>
        columns == SelectSeq(<<1, 2>>, LAMBDA n : FiniteCell(doc.cells[n]))
    IN  IF doc.countryCode = <<>> THEN <<>>
        ELSE [n \in 1..Len(columns) |->
                 [countryCode |-> doc.countryCode, countryName |-> doc.countryName,
                  timestamp |-> years[columns[n]],
                  inflationRate |-> ParseFloat(doc.cells[columns[n]])]]

\* C16: for a bulk CSV whose header row follows a metadata preamble, inflationCsvToJson
\* returns exactly one record per (data row, year column) pair whose cell is a
\* parseable finite number, and none for empty cells or for rows with an empty country
\* code.
C16_CsvDecode == run.pc = "decoded" => run.result = ExpectedRecords(run.doc)


\* C17: when storage holds no observation of a source's granularity, the sync starts at
\* the epoch start itself: the first monthly window begins at 1914-01, and the annual
\* inflation and income syncs request data from year 1900.
C17_EpochStart ==
    [][run.pc = "idle" =>
         /\ (/\ run'.kind = "oecd" /\ run'.pc = "loop"
             /\ getNewestDateForOecdInflationData(inflationTable) = Null)
                => run'.startDate = OECD_EPOCH
         /\ (/\ run'.kind = "wbInfl" /\ run'.pc = "fetch"
             /\ getNewestDateForWorldBankInflationData(inflationTable) = Null)
                => run'.startDate = WB_EPOCH
         /\ (/\ run'.kind = "income" /\ run'.pc = "fetch"
             /\ getNewestDateForIncomeData(incomeTable) = Null)
                => run'.startDate = WB_EPOCH]_vars


\* the OECD run that is about to leave its loop had its resume point at or before the
\* current month: it requested a window before, or its untouched startDate is not later
\* than now
ResumeNotAfterNow(r) == r.incrementedDate # <<>> \/ StrLessEq(r.startDate, Now)

\* the windows of a run follow one another without a gap (each begins where the one
\* before ended), so their union reaches from the resume point to the end of the last
RequestedUpToNow(r) == r.incrementedDate # <<>> /\ StrLessEq(Now, r.incrementedDate)

\* C19: a monthly sync run that completes without a fatal failure has requested every
\* monthly period from its resume point up to the current month, for every resume point
\* not later than the current month, a resume point in the current calendar year
\* included.
C19_WindowCoverage ==
    [][(/\ run.kind = "oecd" /\ run.pc = "loop" /\ run'.pc = "done"
        /\ ResumeNotAfterNow(run)) => RequestedUpToNow(run)]_vars


\* the records of the window in progress whose callback has not settled yet
Unsettled(r) == Max(0, Len(r.validData) - (r.i + Len(r.results)))

\* the step requests a window from the OECD endpoint
IsWindowFetch == run.kind = "oecd" /\ run.pc = "loop" /\ run'.pc # "done"

\* C20: within one monthly sync run, the fetch of the next window is issued only after
\* every insert and every supersede deletion of the window before has settled, and
\* within a window the next batch is dispatched only after all writes of the batch
\* before have settled; two windows of a run are never in progress at once: every
\* row written lies in the window last requested.
C20_SequentialWindows ==
    [][/\ IsWindowFetch =>
            /\ run.validData = <<>> /\ run.results = <<>> /\ run.pendingDeletes = {}
       /\ (run.kind = "oecd" /\ run.pc \in {"settle", "delete"} /\ run'.pc = "loop") =>
            /\ Unsettled(run) = 0
            /\ run.pc = "settle" => run.addedCountryYears = {}
            /\ run.pc = "delete" => Cardinality(run.pendingDeletes) = 1
            /\ run'.pendingDeletes = {}
       /\ (run.kind = "oecd" /\ run'.pc = "delete" /\ run.pc # "delete") =>
            /\ run.pc = "settle" /\ Unsettled(run) = 0
            /\ run'.pendingDeletes = run.addedCountryYears
       /\ (run.kind = "oecd" /\ run.pc # "loop" /\ run'.pc = "addCountry"
           /\ run'.i # run.i) =>
            /\ run.pc = "settle" /\ Len(run.results) = BatchLen(run)
            /\ run'.i = run.i + BATCH_SIZE /\ run'.results = <<>>
       /\ (run.kind = "oecd" /\ inflationTable' # inflationTable
           /\ run.pc = "insert") =>
            /\ Len(run.results) < BatchLen(run)
            /\ OecdInWindow(Cur(run), run.startDate, run.incrementedDate)
       /\ (run.kind = "oecd" /\ tables' # tables) =>
            run.pc \in {"addCountry", "insert", "delete"}]_vars

\* the second batch of the second window is being written while the rows of the first
\* window are in storage
C20_Witness ==
    /\ run.kind = "oecd" /\ run.pc = "insert" /\ run.i = BATCH_SIZE
    /\ \E x \in inflationTable : StrLess(x.timestamp, run.startDate)
    /\ \E x \in inflationTable : StrLess(run.startDate, x.timestamp)


\* C21: at every moment of a sync run, the number of the run's record-level storage
\* operations in flight (observation inserts and supersede deletions together) is at
\* most BATCH_SIZE, whatever the size of the fetched window.
C21_BoundedConcurrency == InFlight(run) <= BATCH_SIZE


\* C22: after any sequence of sync runs, every stored inflation row has a period of the
\* exact shape "YYYY" or "YYYY-MM" and every stored income row a period of the shape
\* "YYYY": a fetched record whose period has another shape is rejected by the validator
\* of the sync that fetched it, whichever source it came from.
C22_PeriodShape ==
    /\ \A x \in inflationTable : IsYearShape(x.timestamp) \/ IsMonthShape(x.timestamp)
    /\ \A x \in incomeTable : IsYearShape(x.timestamp)


SameKey(x, y) == x.countryCode = y.countryCode /\ x.timestamp = y.timestamp

\* C23: storage holds at most one inflation row per (entity, period), and an inflation
\* value, once written, is never modified by a later ingestion from either source: a
\* stored row stays as it is or is removed, and it is removed only by the supersede
\* deletion or a wipe.
C23_ConflictIgnore ==
    [][/\ \A x, y \in inflationTable' : SameKey(x, y) => x = y
       /\ \A x \in inflationTable :
            \/ x \in inflationTable'
            \/ /\ run.pc \in {"delete", "delInflation"}
               /\ ~\E y \in inflationTable' : SameKey(x, y)]_vars

\* a record (E, P, v') has been ingested successfully while (E, P, v) was stored, and
\* v is still the stored value
C23_Witness ==
    /\ run.kind \in {"oecd", "wbInfl"} /\ run.pc \notin {"idle", "failed"}
    /\ run.results # <<>> /\ run.results[1] \in {"fulfilled", "added"}
    /\ \E x \in inflationTable :
         /\ x.countryCode = run.validData[1].countryCode
         /\ x.timestamp = run.validData[1].timestamp
         /\ x.inflationValue # run.validData[1].inflationRate


\* every stored observation references a country row that exists
EveryReferenceExists ==
    \A code \in Referenced(inflationTable, incomeTable) :
        \E c \in countryTable : c.code = code

\* C24: deleteAllData deletes all inflation rows, then all income rows, then all entity
\* rows, so that no observation references a deleted entity during the wipe; after it
\* all three tables are empty and the three returned counts equal the numbers of rows
\* each table held before the call.
C24_FullWipe ==
    /\ run.kind = "deleteAllData" => EveryReferenceExists
    /\ (run.kind = "deleteAllData" /\ run.pc = "delCountries") =>
           inflationTable = {} /\ incomeTable = {}
    /\ (run.kind = "deleteAllData" /\ run.pc = "done") =>
           /\ inflationTable = {} /\ incomeTable = {} /\ countryTable = {}
           /\ <<run.inflationDeleted, run.incomeDeleted, run.countriesDeleted>>
                  = run.before

\* a full wipe of a store that held rows in each of the three tables has returned
C24_Witness ==
    /\ run.kind = "deleteAllData" /\ run.pc = "done"
    /\ run.before[1] > 0 /\ run.before[2] > 0 /\ run.before[3] > 0


CountryCodes(ctry) == {c.code : c \in ctry}

\* C25: after any sequence of sync runs and wipes, every stored inflation or income row
\* references an entity row that exists: the entity row is in storage before the
\* observation insert of the same record is issued, and an entity, once created, is
\* removed only by the full wipe.
C25_ReferentialIntegrity ==
    [][/\ \A code \in Referenced(inflationTable', incomeTable') :
            code \in CountryCodes(countryTable')
       /\ \A x \in (inflationTable' \ inflationTable) \cup (incomeTable' \ incomeTable) :
            x.countryCode \in CountryCodes(countryTable)
       /\ \A code \in CountryCodes(countryTable) \ CountryCodes(countryTable') :
            run.kind = "deleteAllData" /\ run.pc = "delCountries"]_vars

\* a wipe of the inflation data alone has returned: the income rows it left still
\* reference their entity
C25_Witness ==
    /\ run.kind = "deleteAllInflationData" /\ run.pc = "done"
    /\ run.before[1] > 0 /\ incomeTable # {}
    /\ \A x \in incomeTable : x.countryCode \in CountryCodes(countryTable)


\* C26: at the end of a World Bank inflation sync run, records read = records added +
\* duplicates skipped + errors: every fetched record is counted in exactly one of the
\* three outcomes.
C26_CounterConservation ==
    (run.kind = "wbInfl" /\ run.pc = "done") =>
        run.totalRecordsRead =
            run.totalRecordsAdded + run.totalDuplicates + run.totalErrors

\* a run has ended that skipped one record as a duplicate and counted another as an
\* error
C26_Witness ==
    /\ run.kind = "wbInfl" /\ run.pc = "done"
    /\ run.totalDuplicates > 0 /\ run.totalErrors > 0


\* the requests a source client has sent and the attempts a storage call has made
WithinRetryBounds ==
    /\ run.kind \in SourceClients =>
           /\ run.retryCount <= API_MAX_RETRIES
           /\ run.received429 <= API_MAX_RETRIES + 1
    /\ run.kind = "attemptDBCall" => Len(run.outcomes) <= MAX_RETRIES + 1

\* C27: every sync run terminates, provided each network and storage call returns: the
\* window loop advances until it passes the current year, each rate-limited fetch ends
\* after at most 21 requests and each storage call after at most 4 attempts.
C27_Termination ==
    /\ [](WithinRetryBounds)
    /\ (run.pc # "idle") ~> (run.pc = "idle")

\* an OECD run that started at the epoch and wrote rows has left its loop
C27_Witness ==
    /\ run.kind = "oecd" /\ run.pc = "done"
    /\ run.totalRecordsAdded > 0
    /\ StrLess(NumToString(NowYear), run.startDate)


\* C28: whenever the OECD sync deletes the annual row (E, "Y"), at least one monthly
\* row (E, "Y-MM") of that year is in storage at that moment: an annual row is never
\* removed on behalf of a write that failed or of a record the validator rejected.
C28_SupersedeSafety ==
    [][(run.kind = "oecd" /\ run.pc = "delete") =>
          \A x \in {y \in inflationTable \ inflationTable' : IsYearShape(y.timestamp)} :
              \E m \in inflationTable :
                  /\ m.countryCode = x.countryCode
                  /\ IsMonthShape(m.timestamp)
                  /\ LikeYearDash(m.timestamp, x.timestamp)]_vars

\* the inflation rows in storage that were not there when the run was called
NewlyInserted == inflationTable \ run.stored

\* C29: the "records added" total reported by an OECD sync run equals the number of
\* inflation rows the run newly inserted into storage; writing a period that is
\* already stored, such as the period two consecutive windows share, does not
\* increase it.
C29_AddedIsInserted ==
    (run.kind = "oecd" /\ run.pc = "done" /\ "stored" \in DOMAIN run) =>
        run.totalRecordsAdded = Cardinality(NewlyInserted)

\* the table of the dataset an annual sync writes
Dataset == IF run.kind = "income" THEN incomeTable ELSE inflationTable

====
